---- MODULE Spec2Model ----
(***************************************************************************)
(* Model of the bearer-token authentication core of the geospatial         *)
(* analytics backend: extractTokenFromHeader, verifySupabaseJwt (with the   *)
(* module-level JWKS client) and AuthGuard.canActivate.                     *)
(*                                                                         *)
(* One request is served at a time; the process-wide state (the guard's     *)
(* configuration and jwksClientInstance) lives across requests.  The three  *)
(* steps of a request are the points where canActivate can be suspended:    *)
(*   CanActivate          header extraction and verifySupabaseJwt up to its *)
(*                        first await (the JWKS key fetch), or to its end   *)
(*   GetSigningKeySettles the key fetch resolves or rejects and the         *)
(*                        verifier runs to its result                       *)
(*   CanActivateResumes   the guard receives the verifier's result          *)
(***************************************************************************)
EXTENDS Integers, Sequences, FiniteSets, TLC

\* ------------------------------------------------------------------------
\* Bounds
\* ------------------------------------------------------------------------

\* longest Authorization header, counted in pieces (words and spaces)
MaxPieces == 5

\* last instant of the clock (unix seconds, scaled)
MaxNow == 2

\* ------------------------------------------------------------------------
\* JavaScript values
\* ------------------------------------------------------------------------

\* the value undefined of a string-typed field
Undefined == "<undefined>"

\* truthiness of a string | undefined value
Truthy(s) == s # Undefined /\ s # ""

\* the ?? operator on a string | undefined value
Nullish(x, d) == IF x = Undefined THEN d ELSE x

\* ------------------------------------------------------------------------
\* Authorization headers: strings as sequences of characters
\* ------------------------------------------------------------------------

Bearer == <<"B", "e", "a", "r", "e", "r">>

Basic == <<"B", "a", "s", "i", "c">>

Space == <<" ">>

\* the text of the one compact JWT a client of the model can present
TokenText == <<"j", "w", "t">>

HeaderPieces == {Bearer, Basic, Space, TokenText}

RECURSIVE HeadersOf(_)
HeadersOf(n) ==
    IF n = 0 THEN {<<>>}
    ELSE LET shorter == HeadersOf(n - 1)
         IN  shorter \cup {h \o p : h \in shorter, p \in HeaderPieces}

\* request.headers.authorization: absent (<<>>) or present (<<text>>)
Headers == {<<>>} \cup {<<h>> : h \in HeadersOf(MaxPieces)}

\* String.prototype.split(' ')
RECURSIVE Split(_, _)
Split(s, cur) ==
    IF s = <<>> THEN <<cur>>
    ELSE IF Head(s) = " " THEN <<cur>> \o Split(Tail(s), <<>>)
    ELSE Split(Tail(s), Append(cur, Head(s)))

\* extractTokenFromHeader: null is <<>>, a token is <<text>>
extractTokenFromHeader(authHeader) ==
    IF authHeader = <<>> \/ authHeader[1] = <<>> THEN <<>>
    ELSE LET parts == Split(authHeader[1], <<>>)
             type  == parts[1]
         IN  IF type # Bearer \/ Len(parts) < 2 \/ parts[2] = <<>> THEN <<>>
             ELSE <<parts[2]>>

\* ------------------------------------------------------------------------
\* Keys, tokens and the key set of the identity provider
\* ------------------------------------------------------------------------

\* the secret and the base URL of the identity provider that issues tokens
IssuerSecret == "s3cr3t"

IssuerUrl == "https://project.supabase.co"

\* process environment: SUPABASE_JWT_SECRET and SUPABASE_URL, set or not
SecretEnv == {Undefined, IssuerSecret, "0ther"}

UrlEnv == {Undefined, IssuerUrl}

\* jwt.verify(token, secret, ...): the bytes of the secret string
RawKey(secret) == [kind |-> "secret", form |-> "raw", of |-> secret]

\* Buffer.from(secret, 'base64'): never the same bytes as the string itself
Base64Key(secret) == [kind |-> "secret", form |-> "base64", of |-> secret]

\* key.getPublicKey() of the entry kid of the key set published under url
PublicKey(url, kid) == [kind |-> "public", form |-> kid, of |-> url]

\* a key the verifier is never configured with
ForeignKey == [kind |-> "foreign", form |-> "", of |-> ""]

\* key ids published by the issuer's JWKS endpoint
JwksAt(url) == IF url = IssuerUrl THEN {"k1"} ELSE {}

Algs == {"HS256", "ES256", "RS256"}

Kids == {Undefined, "k1", "k2"}

\* the key whose signature the token carries; for an HS256 header and a
\* public key this is the algorithm-confusion token (HMAC keyed with the
\* published public key)
SignKeys == {RawKey(IssuerSecret), Base64Key(IssuerSecret),
             PublicKey(IssuerUrl, "k1"), ForeignKey}

Subs == {Undefined, "", "user-1"}

Emails == {Undefined, "u@example.org"}

\* numeric claims: absent (<<>>) or present (<<n>>)
Exps == {<<>>} \cup {<<t>> : t \in 1..(MaxNow + 1)}

Iats == {<<0>>}

\* what jwt.decode finds in TokenText: header {alg, kid} and payload
Tokens == [alg : Algs, kid : Kids, signKey : SignKeys, sub : Subs,
           email : Emails, iat : Iats, exp : Exps]

\* jwt.decode(token, {complete: true}): null (<<>>) for text that is no JWT
JwtDecode(token, content) == IF token = TokenText THEN <<content>> ELSE <<>>

\* ------------------------------------------------------------------------
\* jsonwebtoken.verify and the classification of what it throws
\* ------------------------------------------------------------------------

\* jwt.verify(token, key, {algorithms}) at clock time t: "ok" or the class
\* of the error thrown; the signature is checked before the expiry
JwtVerify(jwt, key, algorithms, t) ==
    IF jwt.alg \notin algorithms THEN "JsonWebTokenError"
    ELSE IF jwt.signKey # key THEN "JsonWebTokenError"
    ELSE IF jwt.exp # <<>> /\ t >= jwt.exp[1] THEN "TokenExpiredError"
    ELSE "ok"

\* one record per jwt.verify call of a verification
VerifyCall(jwt, key, algorithms, t) ==
    [alg |-> jwt.alg, key |-> key, algorithms |-> algorithms,
     clockTimestamp |-> t, outcome |-> JwtVerify(jwt, key, algorithms, t)]

\* the verifier's failure reasons (strings; a template literal is the
\* sequence of its parts)
NoToken == <<"No token provided">>

MalformedToken == <<"Invalid token format">>

MissingSecret == <<"JWT secret not configured">>

UnsupportedAlgorithm(alg) == <<"Unsupported algorithm: ", alg>>

MissingSubject == <<"Token missing subject (sub) claim">>

Expired == <<"Token has expired">>

InvalidSignature == <<"Invalid token">>

Unexpected == <<"Token verification failed">>

\* JwtVerificationResult
Invalid(reason) == [valid |-> FALSE, user |-> <<>>, error |-> reason]

Valid(user) == [valid |-> TRUE, user |-> <<user>>, error |-> <<>>]

\* the outer catch of verifySupabaseJwt; TokenExpiredError extends
\* JsonWebTokenError, the JWKS client's errors do not
Catch(error) ==
    IF error = "TokenExpiredError" THEN Invalid(Expired)
    ELSE IF error = "JsonWebTokenError" THEN Invalid(InvalidSignature)
    ELSE Invalid(Unexpected)

\* the tail of the try block without the test of user.sub
ExtractUser_NoSubCheck(decoded) ==
    Valid([sub |-> decoded.sub, email |-> decoded.email,
           iat |-> decoded.iat, exp |-> decoded.exp])

\* after a successful jwt.verify: build the user and require sub
ExtractUser(decoded) ==
    LET user == [sub |-> decoded.sub, email |-> decoded.email,
                 iat |-> decoded.iat, exp |-> decoded.exp]
    IN  IF ~Truthy(user.sub) THEN Invalid(MissingSubject) ELSE Valid(user)

\* the tail of the try block for a jwt.verify outcome
Conclude(jwt, outcome) ==
    IF outcome = "ok" THEN ExtractUser(jwt) ELSE Catch(outcome)

\* ------------------------------------------------------------------------
\* verifySupabaseJwt
\* ------------------------------------------------------------------------

\* the branch taken when the test of alg is left out of the first condition
SelectBranch_KidOnly(alg, kid, supabaseUrl) ==
    IF Truthy(kid) /\ Truthy(supabaseUrl) THEN "jwks"
    ELSE IF alg = "HS256" THEN "secret"
    ELSE "unsupported"

\* the if / else-if / else on the decoded header
SelectBranch(alg, kid, supabaseUrl) ==
    IF alg = "ES256" /\ Truthy(kid) /\ Truthy(supabaseUrl) THEN "jwks"
    ELSE IF alg = "HS256" THEN "secret"
    ELSE "unsupported"

\* an algorithms option that is not pinned to the branch
AlgorithmsES256_Unpinned == {"ES256", "HS256"}

\* algorithms option of the jwt.verify calls of each branch
AlgorithmsES256 == {"ES256"}

AlgorithmsHS256 == {"HS256"}

\* the HS256 branch without the attempt on the base64-decoded secret
VerifyHS256_RawOnly(jwt, secret, t) ==
    <<VerifyCall(jwt, RawKey(secret), AlgorithmsHS256, t)>>

\* the HS256 branch: the calls made, the last one deciding
VerifyHS256(jwt, secret, t) ==
    LET first  == VerifyCall(jwt, RawKey(secret), AlgorithmsHS256, t)
        second == VerifyCall(jwt, Base64Key(secret), AlgorithmsHS256, t)
    IN  IF first.outcome = "ok" THEN <<first>> ELSE <<first, second>>

\* the ES256 branch after the key arrived
VerifyES256(jwt, publicKey, t) ==
    <<VerifyCall(jwt, publicKey, AlgorithmsES256, t)>>

\* jwksClient({jwksUri, cache, cacheMaxAge, rateLimit})
NewJwksClient(supabaseUrl) ==
    [jwksUri |-> <<supabaseUrl, "/auth/v1/.well-known/jwks.json">>,
     base |-> supabaseUrl, cache |-> TRUE, cacheMaxAge |-> 600000,
     rateLimit |-> TRUE]

\* a getJwksClient that builds a client on every call
getJwksClient_AlwaysNew(instance, supabaseUrl) ==
    <<NewJwksClient(supabaseUrl)>>

\* a getJwksClient that replaces the client when the URL changes
getJwksClient_PerUrl(instance, supabaseUrl) ==
    IF instance = <<>> \/ instance[1].base # supabaseUrl
    THEN <<NewJwksClient(supabaseUrl)>>
    ELSE instance

\* getJwksClient on the module-level instance (<<>> is null)
getJwksClient(instance, supabaseUrl) ==
    IF instance = <<>> THEN <<NewJwksClient(supabaseUrl)>> ELSE instance

\* verifySupabaseJwt from its call to its first await or its return:
\* suspended tells which; the rest is the state it leaves behind
VerifyStart(token, content, secret, supabaseUrl, instance, t) ==
    LET done(res, calls) ==
            [suspended |-> FALSE, result |-> <<res>>, calls |-> calls,
             instance |-> instance, fetches |-> 0]
        decodedHeader == JwtDecode(token, content)
    IN  IF token = <<>> THEN done(Invalid(NoToken), <<>>)
        ELSE IF decodedHeader = <<>> THEN done(Invalid(MalformedToken), <<>>)
        ELSE LET jwt    == decodedHeader[1]
                 branch == SelectBranch(jwt.alg, jwt.kid, supabaseUrl)
             IN  IF branch = "jwks"
                 THEN [suspended |-> TRUE, result |-> <<>>, calls |-> <<>>,
                       instance |-> getJwksClient(instance, supabaseUrl),
                       fetches |-> 1]
                 ELSE IF branch = "secret"
                 THEN IF ~Truthy(secret)
                      THEN done(Invalid(MissingSecret), <<>>)
                      ELSE LET calls == VerifyHS256(jwt, secret, t)
                           IN  done(Conclude(jwt, calls[Len(calls)].outcome),
                                    calls)
                 ELSE done(Invalid(UnsupportedAlgorithm(jwt.alg)), <<>>)

\* how the pending client.getSigningKey(kid) can settle
FetchOutcomes == {"response", "unreachable", "timeout"}

\* getSigningKey: the public key (<<key>>) or the error thrown
getSigningKey(client, kid, outcome) ==
    IF outcome = "unreachable" THEN [key |-> <<>>, error |-> "JwksError"]
    ELSE IF outcome = "timeout" THEN [key |-> <<>>, error |-> "TimeoutError"]
    ELSE IF kid \in JwksAt(client.base)
         THEN [key |-> <<PublicKey(client.base, kid)>>, error |-> ""]
         ELSE [key |-> <<>>, error |-> "SigningKeyNotFoundError"]

\* ------------------------------------------------------------------------
\* JSON text and JSON.parse
\* ------------------------------------------------------------------------

\* longest coordinate list of a generated geometry
MaxCoords == 2

\* a JSON text is a sequence of lexical tokens
Punct(c) == [lex |-> "punct", v |-> c]

StrTok(x) == [lex |-> "string", v |-> x]

NumTok(d) == [lex |-> "number", v |-> d]

NullTok == [lex |-> "null", v |-> "null"]

\* a character sequence that starts no JSON token
BadTok == [lex |-> "bad", v |-> "?"]

\* JavaScript values that JSON.parse can return, and undefined
JNull == [t |-> "null", v |-> <<>>]

JUndefined == [t |-> "undefined", v |-> <<>>]

JNum(d) == [t |-> "number", v |-> <<d>>]

JStr(x) == [t |-> "string", v |-> <<x>>]

JArr(elements) == [t |-> "array", v |-> elements]

\* an object is the sequence of its members in insertion order
JObj(members) == [t |-> "object", v |-> members]

Member(key, value) == [k |-> key, val |-> value]

\* obj[key] = value on the member list: a repeated key keeps its place
SetMember(members, key, value) ==
    IF \E i \in DOMAIN members : members[i].k = key
    THEN [i \in DOMAIN members |->
             IF members[i].k = key THEN Member(key, value) ELSE members[i]]
    ELSE Append(members, Member(key, value))

\* value.key of a parsed value (arrays have no such property)
GetProperty(value, key) ==
    IF value.t = "object" /\ \E i \in DOMAIN value.v : value.v[i].k = key
    THEN value.v[CHOOSE i \in DOMAIN value.v : value.v[i].k = key].val
    ELSE JUndefined

\* !value
Falsy(value) ==
    \/ value.t \in {"null", "undefined"}
    \/ value = JNum("0")
    \/ value = JStr("")

ParseFailed == [ok |-> FALSE, value |-> JNull, rest |-> <<>>]

Parsed(value, rest) == [ok |-> TRUE, value |-> value, rest |-> rest]

IsPunct(toks, c) == toks # <<>> /\ Head(toks) = Punct(c)

\* recursive descent over the tokens: one value, then the array elements
\* after '[' or a comma, then the object members after '{' or a comma
RECURSIVE ParseValue(_), ParseElements(_, _), ParseMembers(_, _)
ParseValue(toks) ==
    IF toks = <<>> THEN ParseFailed
    ELSE LET tok == Head(toks)
         IN  IF tok.lex = "null" THEN Parsed(JNull, Tail(toks))
             ELSE IF tok.lex = "number" THEN Parsed(JNum(tok.v), Tail(toks))
             ELSE IF tok.lex = "string" THEN Parsed(JStr(tok.v), Tail(toks))
             ELSE IF tok = Punct("[")
                  THEN IF IsPunct(Tail(toks), "]")
                       THEN Parsed(JArr(<<>>), Tail(Tail(toks)))
                       ELSE ParseElements(Tail(toks), <<>>)
             ELSE IF tok = Punct("{")
                  THEN IF IsPunct(Tail(toks), "}")
                       THEN Parsed(JObj(<<>>), Tail(Tail(toks)))
                       ELSE ParseMembers(Tail(toks), <<>>)
             ELSE ParseFailed

ParseElements(toks, acc) ==
    LET element == ParseValue(toks)
    IN  IF ~element.ok THEN ParseFailed
        ELSE IF IsPunct(element.rest, ",")
             THEN ParseElements(Tail(element.rest), Append(acc, element.value))
        ELSE IF IsPunct(element.rest, "]")
             THEN Parsed(JArr(Append(acc, element.value)), Tail(element.rest))
        ELSE ParseFailed

ParseMembers(toks, acc) ==
    IF toks = <<>> \/ Head(toks).lex # "string" \/ ~IsPunct(Tail(toks), ":")
    THEN ParseFailed
    ELSE LET key   == Head(toks).v
             value == ParseValue(Tail(Tail(toks)))
         IN  IF ~value.ok THEN ParseFailed
             ELSE IF IsPunct(value.rest, ",")
                  THEN ParseMembers(Tail(value.rest),
                                    SetMember(acc, key, value.value))
             ELSE IF IsPunct(value.rest, "}")
                  THEN Parsed(JObj(SetMember(acc, key, value.value)),
                              Tail(value.rest))
             ELSE ParseFailed

\* JSON.parse(text): the value, or ok = FALSE for the SyntaxError thrown
JsonParse(text) ==
    LET whole == ParseValue(text)
    IN  IF whole.ok /\ whole.rest = <<>> THEN whole ELSE ParseFailed

\* s_1 sep s_2 sep ... s_n
RECURSIVE Join(_, _)
Join(texts, sep) ==
    IF texts = <<>> THEN <<>>
    ELSE IF Len(texts) = 1 THEN texts[1]
    ELSE texts[1] \o <<sep>> \o Join(Tail(texts), sep)

\* JSON.stringify(value): how the store serializes a structure
RECURSIVE JsonStringify(_)
JsonStringify(value) ==
    IF value.t = "null" THEN <<NullTok>>
    ELSE IF value.t = "number" THEN <<NumTok(value.v[1])>>
    ELSE IF value.t = "string" THEN <<StrTok(value.v[1])>>
    ELSE IF value.t = "array"
         THEN <<Punct("[")>>
              \o Join([i \in DOMAIN value.v |-> JsonStringify(value.v[i])],
                      Punct(","))
              \o <<Punct("]")>>
    ELSE <<Punct("{")>>
         \o Join([i \in DOMAIN value.v |->
                     <<StrTok(value.v[i].k), Punct(":")>>
                     \o JsonStringify(value.v[i].val)],
                 Punct(","))
         \o <<Punct("}")>>

\* ------------------------------------------------------------------------
\* safeParseGeometry
\* ------------------------------------------------------------------------

\* the argument: null, undefined or a string
NullText == [kind |-> "null", text |-> <<>>]

UndefinedText == [kind |-> "undefined", text |-> <<>>]

Text(toks) == [kind |-> "string", text |-> toks]

\* what a call leaves: the value returned (<<>> is null), or raised
Returned(geometry) == [raised |-> FALSE, geometry |-> geometry]

Raised == [raised |-> TRUE, geometry |-> <<>>]

\* safeParseGeometry with JSON.parse outside the try block
safeParseGeometry_NoTry(geojsonString) ==
    IF geojsonString.kind # "string" \/ geojsonString.text = <<>>
    THEN Returned(<<>>)
    ELSE LET parsed == JsonParse(geojsonString.text)
         IN  IF ~parsed.ok THEN Raised
             ELSE IF Falsy(parsed.value)
                     \/ parsed.value.t \notin {"object", "array"}
                  THEN Returned(<<>>)
             ELSE IF Falsy(GetProperty(parsed.value, "type"))
                     \/ Falsy(GetProperty(parsed.value, "coordinates"))
                  THEN Returned(<<>>)
             ELSE Returned(<<parsed.value>>)

\* safeParseGeometry that tests only the type field
safeParseGeometry_TypeOnly(geojsonString) ==
    IF geojsonString.kind # "string" \/ geojsonString.text = <<>>
    THEN Returned(<<>>)
    ELSE LET parsed == JsonParse(geojsonString.text)
         IN  IF ~parsed.ok THEN Returned(<<>>)
             ELSE IF Falsy(parsed.value)
                     \/ parsed.value.t \notin {"object", "array"}
                  THEN Returned(<<>>)
             ELSE IF Falsy(GetProperty(parsed.value, "type"))
                  THEN Returned(<<>>)
             ELSE Returned(<<parsed.value>>)

\* safeParseGeometry: typeof parsed is 'object' for objects and arrays
safeParseGeometry(geojsonString) ==
    IF geojsonString.kind # "string" \/ geojsonString.text = <<>>
    THEN Returned(<<>>)
    ELSE LET parsed == JsonParse(geojsonString.text)
         IN  IF ~parsed.ok THEN Returned(<<>>)
             ELSE IF Falsy(parsed.value)
                     \/ parsed.value.t \notin {"object", "array"}
                  THEN Returned(<<>>)
             ELSE IF Falsy(GetProperty(parsed.value, "type"))
                     \/ Falsy(GetProperty(parsed.value, "coordinates"))
                  THEN Returned(<<>>)
             ELSE Returned(<<parsed.value>>)

\* values offered to the sanitizer ---------------------------------------

Digits == {"0", "1"}

\* [d, ...] of at most n numbers
NumberLists(n) ==
    UNION {[1..k -> {JNum(d) : d \in Digits}] : k \in 0..n}

\* coordinates of well-formed geometries: a position list, or a list of two
\* positions
Coordinates ==
    {JArr(l) : l \in NumberLists(MaxCoords)}
    \cup {JArr(<<JArr(<<JNum("0"), JNum("1")>>),
                 JArr(<<JNum("1"), JNum("0")>>)>>)}

TypeNames == {JStr("Point"), JStr("LineString")}

\* values of a type or coordinates member that are there but unusable
Unusable == {JNull, JNum("0"), JStr("")}

Bbox == JArr(<<JNum("0"), JNum("1")>>)

\* well-formed structures with a type and a coordinates member, in either
\* order, with or without a further member
WellFormedGeometries ==
    UNION {{JObj(<<Member("type", ty), Member("coordinates", co)>>),
            JObj(<<Member("coordinates", co), Member("type", ty)>>),
            JObj(<<Member("type", ty), Member("bbox", Bbox),
                   Member("coordinates", co)>>)} :
           ty \in TypeNames, co \in Coordinates}

\* objects that miss a member or carry an unusable one
IllFormedObjects ==
    {JObj(<<>>), JObj(<<Member("bbox", Bbox)>>)}
    \cup {JObj(<<Member("type", ty)>>) : ty \in TypeNames \cup Unusable}
    \cup {JObj(<<Member("coordinates", co)>>) : co \in Coordinates}
    \cup {JObj(<<Member("type", ty), Member("coordinates", co)>>) :
             ty \in Unusable, co \in Coordinates}
    \cup {JObj(<<Member("type", ty), Member("coordinates", co)>>) :
             ty \in TypeNames, co \in Unusable}
    \cup {JObj(<<Member("type", ty), Member("geometries", JArr(<<>>))>>) :
             ty \in {JStr("GeometryCollection")}}

NonObjects ==
    {JNull, JNum("0"), JNum("1"), JStr(""), JStr("Point")}
    \cup Coordinates

JsonValues == WellFormedGeometries \cup IllFormedObjects \cup NonObjects

\* every proper, non-empty prefix of a text
Truncations(text) == {SubSeq(text, 1, n) : n \in 1..(Len(text) - 1)}

\* a text in which a repeated key overwrites the first type
RepeatedKeyText ==
    <<Punct("{"), StrTok("type"), Punct(":"), StrTok(""), Punct(","),
      StrTok("coordinates"), Punct(":"), Punct("["), Punct("]"), Punct(","),
      StrTok("type"), Punct(":"), StrTok("Point"), Punct("}")>>

GeometryTexts ==
    LET serialized == {JsonStringify(value) : value \in JsonValues}
    IN  serialized
        \cup UNION {Truncations(text) : text \in serialized}
        \cup {text \o <<BadTok>> : text \in serialized}
        \cup {<<BadTok>>, RepeatedKeyText}

GeometryInputs ==
    {NullText, UndefinedText, Text(<<>>)}
    \cup {Text(text) : text \in GeometryTexts}

\* ------------------------------------------------------------------------
\* Store rows and the features built from them
\* ------------------------------------------------------------------------

\* most rows of one query result
MaxRows == 2

\* a nullable column: <<>> is null, <<v>> a value
Null == <<>>

\* row.column ?? fallback
Default(value, fallback) == IF value = Null THEN <<fallback>> ELSE value

\* a Date object: new Date(ms), or an Invalid Date
ValidDate(ms) == [isDate |-> TRUE, empty |-> FALSE, valid |-> TRUE, ms |-> ms]

InvalidDate == [isDate |-> TRUE, empty |-> FALSE, valid |-> FALSE, ms |-> 0]

\* a string: one that new Date() parses to the time ms, one that it parses
\* to an Invalid Date, and the empty string
DateText(ms) == [isDate |-> FALSE, empty |-> FALSE, valid |-> TRUE, ms |-> ms]

GarbageText == [isDate |-> FALSE, empty |-> FALSE, valid |-> FALSE, ms |-> 0]

EmptyText == [isDate |-> FALSE, empty |-> TRUE, valid |-> FALSE, ms |-> 0]

\* the RangeError of toISOString on an Invalid Date, leaving the function
RangeError == [raised |-> "RangeError"]

\* Date.prototype.toISOString of a valid date
ISOString(ms) == [iso |-> ms]

\* new Date().getFullYear() at clock time t
FullYear(t) == 2025 + t

\* safeISOString that always answers with the current time
safeISOString_AlwaysNow(date, t) == ISOString(t)

\* safeISOString without its try block
safeISOString_NoCatch(date, t) ==
    IF date = Null \/ date[1].empty THEN ISOString(t)
    ELSE IF date[1].valid THEN ISOString(date[1].ms)
    ELSE RangeError

\* safeISOString(date) at clock time t: a falsy argument gives the current
\* time; a Date is converted, a string through new Date(date); toISOString
\* of an Invalid Date throws a RangeError, which the catch turns into the
\* current time
safeISOString(date, t) ==
    IF date = Null \/ date[1].empty THEN ISOString(t)
    ELSE IF date[1].isDate
         THEN IF date[1].valid THEN ISOString(date[1].ms) ELSE ISOString(t)
    ELSE IF date[1].valid THEN ISOString(date[1].ms)
    ELSE ISOString(t)

\* geometry texts a row can carry
PointText ==
    JsonStringify(JObj(<<Member("type", JStr("Point")),
                         Member("coordinates",
                                JArr(<<JNum("1"), JNum("0")>>))>>))

NoCoordinatesText == JsonStringify(JObj(<<Member("type", JStr("Point"))>>))

TruncatedText == SubSeq(PointText, 1, Len(PointText) - 2)

RowGeometries ==
    {Text(PointText), Text(NoCoordinatesText), Text(TruncatedText), NullText}

\* the columns of the three tables on one record; score stands for
\* migration_score, growth_score and risk_score
CompleteRow(id, geojson) ==
    [id |-> <<id>>, geojson |-> geojson,
     origin_region |-> <<"Pune">>, destination_region |-> <<"Mumbai">>,
     region_name |-> <<"Pune Rural">>, score |-> <<82>>, year |-> <<2024>>,
     classification |-> <<"peri-urban">>, risk_level |-> <<"high">>,
     factors |-> <<"internet_coverage">>, created_at |-> <<ValidDate(0)>>]

\* a row whose nullable scalars are all null
BareRow(geojson) ==
    [id |-> Null, geojson |-> geojson,
     origin_region |-> Null, destination_region |-> Null,
     region_name |-> Null, score |-> Null, year |-> Null,
     classification |-> Null, risk_level |-> Null,
     factors |-> Null, created_at |-> Null]

\* a row with values outside the enums and an Invalid Date
OddRow(id, geojson) ==
    [id |-> <<id>>, geojson |-> geojson,
     origin_region |-> <<"Pune">>, destination_region |-> <<"Mumbai">>,
     region_name |-> <<"Pune Rural">>, score |-> <<10>>, year |-> <<2024>>,
     classification |-> <<"suburban">>, risk_level |-> <<"severe">>,
     factors |-> Null, created_at |-> <<InvalidDate>>]

\* primary keys: one per row of the pool
CompleteId(geojson) ==
    IF geojson = Text(PointText) THEN "c-point"
    ELSE IF geojson = Text(NoCoordinatesText) THEN "c-nocoordinates"
    ELSE IF geojson = Text(TruncatedText) THEN "c-truncated"
    ELSE "c-null"

OddId(geojson) ==
    IF geojson = Text(PointText) THEN "o-point"
    ELSE IF geojson = Text(NoCoordinatesText) THEN "o-nocoordinates"
    ELSE IF geojson = Text(TruncatedText) THEN "o-truncated"
    ELSE "o-null"

\* the rows a table can hold
RowPool ==
    {CompleteRow(CompleteId(g), g) : g \in RowGeometries}
    \cup {BareRow(g) : g \in RowGeometries}
    \cup {OddRow(OddId(g), g) : g \in RowGeometries}

\* ORDER BY score DESC: nulls first, then falling scores
ScoreKey(row) == IF row.score = Null THEN 1000 ELSE row.score[1]

OrderedByScore(rows) ==
    \A i, j \in DOMAIN rows : i < j => ScoreKey(rows[i]) >= ScoreKey(rows[j])

Distinct(rows) ==
    \A i, j \in DOMAIN rows : i # j => rows[i] # rows[j]

\* row sequences a query can answer with
RowsUpTo(n) ==
    {rows \in UNION {[1..k -> RowPool] : k \in 0..n} :
        Distinct(rows) /\ OrderedByScore(rows)}

\* result.rows: an array (<<rows>>), or no array at all (<<>>)
StoreResults == {<<>>} \cup {<<rows>> : rows \in RowsUpTo(MaxRows)}

\* the six reader classes of the repository: three resources, each in a
\* version that sanitizes the geometry and in one that calls JSON.parse
Resources == {"migration", "growth-zones", "digital-risk"}

Readers == [resource : Resources, sanitizes : BOOLEAN]

Feature(geometry, properties) ==
    [type |-> "Feature", geometry |-> geometry, properties |-> properties]

FeatureCollection(features) ==
    [type |-> "FeatureCollection", features |-> features]

emptyFeatureCollection == FeatureCollection(<<>>)

\* growth properties that copy the classification without a fallback
SafeProperties_NoFallback(resource, row, t) ==
    IF resource = "migration"
    THEN [id |-> Default(row.id, ""),
          origin_region |-> Default(row.origin_region, "Unknown"),
          destination_region |-> Default(row.destination_region, "Unknown"),
          migration_score |-> Default(row.score, 0),
          year |-> Default(row.year, FullYear(t)),
          created_at |-> safeISOString(row.created_at, t)]
    ELSE IF resource = "growth-zones"
    THEN [id |-> Default(row.id, ""),
          region_name |-> Default(row.region_name, "Unknown"),
          growth_score |-> Default(row.score, 0),
          classification |-> row.classification,
          created_at |-> safeISOString(row.created_at, t)]
    ELSE [id |-> Default(row.id, ""),
          region_name |-> Default(row.region_name, "Unknown"),
          risk_score |-> Default(row.score, 0),
          risk_level |-> Default(row.risk_level, "low"),
          factors |-> Default(row.factors, "{}"),
          created_at |-> safeISOString(row.created_at, t)]

\* properties of the sanitizing readers, with their fallbacks
SafeProperties(resource, row, t) ==
    IF resource = "migration"
    THEN [id |-> Default(row.id, ""),
          origin_region |-> Default(row.origin_region, "Unknown"),
          destination_region |-> Default(row.destination_region, "Unknown"),
          migration_score |-> Default(row.score, 0),
          year |-> Default(row.year, FullYear(t)),
          created_at |-> safeISOString(row.created_at, t)]
    ELSE IF resource = "growth-zones"
    THEN [id |-> Default(row.id, ""),
          region_name |-> Default(row.region_name, "Unknown"),
          growth_score |-> Default(row.score, 0),
          classification |-> Default(row.classification, "rural"),
          created_at |-> safeISOString(row.created_at, t)]
    ELSE [id |-> Default(row.id, ""),
          region_name |-> Default(row.region_name, "Unknown"),
          risk_score |-> Default(row.score, 0),
          risk_level |-> Default(row.risk_level, "low"),
          factors |-> Default(row.factors, "{}"),
          created_at |-> safeISOString(row.created_at, t)]

\* properties of the readers that copy the columns; created_at must be a
\* valid Date here
PlainProperties(resource, row) ==
    IF resource = "migration"
    THEN [id |-> row.id, origin_region |-> row.origin_region,
          destination_region |-> row.destination_region,
          migration_score |-> row.score, year |-> row.year,
          created_at |-> ISOString(row.created_at[1].ms)]
    ELSE IF resource = "growth-zones"
    THEN [id |-> row.id, region_name |-> row.region_name,
          growth_score |-> row.score, classification |-> row.classification,
          created_at |-> ISOString(row.created_at[1].ms)]
    ELSE [id |-> row.id, region_name |-> row.region_name,
          risk_score |-> row.score, risk_level |-> row.risk_level,
          factors |-> row.factors,
          created_at |-> ISOString(row.created_at[1].ms)]

\* the loop body that drops a row without counting it
LoopBody_NoCount(resource, row, features, skippedCount, t) ==
    LET geometry == safeParseGeometry(row.geojson).geometry
    IN  IF geometry = <<>>
        THEN [features |-> features, skippedCount |-> skippedCount]
        ELSE [features |-> Append(features,
                  Feature(geometry[1], SafeProperties(resource, row, t))),
              skippedCount |-> skippedCount]

\* the loop body that puts the new feature in front
LoopBody_Unshift(resource, row, features, skippedCount, t) ==
    LET geometry == safeParseGeometry(row.geojson).geometry
    IN  IF geometry = <<>>
        THEN [features |-> features, skippedCount |-> skippedCount + 1]
        ELSE [features |-> <<Feature(geometry[1],
                                     SafeProperties(resource, row, t))>>
                           \o features,
              skippedCount |-> skippedCount]

\* one iteration of the for loop of a sanitizing reader
LoopBody(resource, row, features, skippedCount, t) ==
    LET geometry == safeParseGeometry(row.geojson).geometry
    IN  IF geometry = <<>>
        THEN [features |-> features, skippedCount |-> skippedCount + 1]
        ELSE [features |-> Append(features,
                  Feature(geometry[1], SafeProperties(resource, row, t))),
              skippedCount |-> skippedCount]

\* JSON.parse(row.geojson) of the plain readers: null is converted to the
\* text 'null'
PlainParse(geojson) ==
    IF geojson.kind = "null" THEN JsonParse(<<NullTok>>)
    ELSE IF geojson.kind = "undefined" THEN ParseFailed
    ELSE JsonParse(geojson.text)

\* the callback of result.rows.map throws for this row
PlainRowThrows(row) ==
    \/ ~PlainParse(row.geojson).ok
    \/ row.created_at = Null
    \/ ~row.created_at[1].valid

\* result.rows.map(...) of a plain reader, when no row throws
PlainFeatures(resource, rows) ==
    [i \in DOMAIN rows |->
        Feature(PlainParse(rows[i].geojson).value,
                PlainProperties(resource, rows[i]))]

\* new InternalServerErrorException(message)
InternalServerErrorException(message) ==
    [status |-> 500, message |-> message]

RetrievalMessage(resource) ==
    IF resource = "migration" THEN "Failed to retrieve migration data"
    ELSE IF resource = "growth-zones"
         THEN "Failed to retrieve growth zone data"
    ELSE "Failed to retrieve digital risk data"

\* a catch block that throws the caught error on
ReaderCatch_Rethrow(resource, error) == [status |-> 500, message |-> error]

\* the catch block of a reader
ReaderCatch(resource, error) ==
    InternalServerErrorException(RetrievalMessage(resource))

\* how pool.query can fail
QueryFailures == {"connection error", "timeout", "malformed query"}

\* ------------------------------------------------------------------------
\* The global exception filter
\* ------------------------------------------------------------------------

\* a string is the sequence of its parts; <<>> is the empty string
GenericMessage == <<"Internal server error">>

\* exception.getResponse(): a string, or an object whose message member is
\* absent, a string, a number or an array of strings
StringResponse(text) == [t |-> "string", v |-> text]

ObjectResponse(message) == [t |-> "object", v |-> message]

NoResponse == [t |-> "none", v |-> <<>>]

AbsentMessage == [t |-> "absent", v |-> <<>>]

StringMessage(text) == [t |-> "string", v |-> text]

NumberMessage(digits) == [t |-> "number", v |-> digits]

ArrayMessage(texts) == [t |-> "array", v |-> texts]

\* what can be thrown: an HttpException, another Error, or any other value
HttpException(status, response) ==
    [kind |-> "HttpException", status |-> status, response |-> response,
     message |-> <<>>, stack |-> <<>>]

PlainError(message, stack) ==
    [kind |-> "Error", status |-> 0, response |-> NoResponse,
     message |-> message, stack |-> stack]

ThrownValue(text) ==
    [kind |-> "value", status |-> 0, response |-> NoResponse,
     message |-> text, stack |-> <<>>]

\* the exception classes of @nestjs/common answer getResponse() with
\* {statusCode, message, error}
NestException(status, message) ==
    HttpException(status, ObjectResponse(StringMessage(message)))

\* Array.prototype.toString: the elements joined with commas
RECURSIVE JoinTexts(_)
JoinTexts(texts) ==
    IF texts = <<>> THEN <<>>
    ELSE IF Len(texts) = 1 THEN texts[1]
    ELSE texts[1] \o <<",">> \o JoinTexts(Tail(texts))

\* message?.toString(): undefined (<<>>) for an absent member, else <<text>>
MessageToString(message) ==
    IF message.t = "absent" THEN <<>>
    ELSE IF message.t = "array" THEN <<JoinTexts(message.v)>>
    ELSE IF message.t = "number" THEN << <<message.v>> >>
    ELSE <<message.v>>

\* response.status(status).json(body)
Response(status, body) == [status |-> status, body |-> body]

Envelope(status, message, t) ==
    [statusCode |-> status, message |-> message, timestamp |-> ISOString(t)]

\* a filter that answers every exception with status 500
GlobalExceptionFilterCatch_Always500(exception, t) ==
    Response(500, Envelope(500, GenericMessage, t))

\* a filter that answers with the message of any Error
GlobalExceptionFilterCatch_Leaks(exception, t) ==
    IF exception.kind = "HttpException"
    THEN Response(exception.status,
                  Envelope(exception.status, GenericMessage, t))
    ELSE Response(500, Envelope(500, exception.message, t))

\* GlobalExceptionFilter.catch at clock time t
GlobalExceptionFilterCatch(exception, t) ==
    LET status == IF exception.kind = "HttpException"
                  THEN exception.status ELSE 500
        text == IF exception.kind = "HttpException"
                   /\ exception.response.t = "object"
                THEN MessageToString(exception.response.v)
                ELSE <<>>
        message ==
            IF exception.kind # "HttpException" THEN GenericMessage
            ELSE IF exception.response.t = "string"
                 THEN exception.response.v
            ELSE IF text = <<>> \/ text[1] = <<>> THEN GenericMessage
            ELSE text[1]
    IN  Response(status, Envelope(status, message, t))

\* the exceptions that can reach the filter
HttpStatuses == {400, 401, 404, 500}

MessageTexts == {<<"Not Found">>, <<"Failed to retrieve growth zone data">>}

CauseTexts == {<<"connect ECONNREFUSED 10.0.0.5:5432">>,
               <<"relation \"growth_zones\" does not exist">>}

Stacks == {<<>>, <<"at DatabaseService.query (database.service.js:57:13)">>}

Responses ==
    {StringResponse(m) : m \in MessageTexts \cup {<<>>}}
    \cup {ObjectResponse(AbsentMessage)}
    \cup {ObjectResponse(StringMessage(m)) : m \in MessageTexts \cup {<<>>}}
    \cup {ObjectResponse(NumberMessage(d)) : d \in {"0", "42"}}
    \cup {ObjectResponse(ArrayMessage(a)) :
             a \in {<<>>, << <<"Not Found">> >>,
                    << <<"Not Found">>, <<"Failed">> >>}}

Exceptions ==
    {HttpException(s, r) : s \in HttpStatuses, r \in Responses}
    \cup {PlainError(m, st) : m \in CauseTexts \cup {<<>>}, st \in Stacks}
    \cup {ThrownValue(m) : m \in CauseTexts \cup {<<>>}}

\* ------------------------------------------------------------------------
\* State
\* ------------------------------------------------------------------------

VARIABLES
    jwtSecret,          \* AuthGuard.jwtSecret
    supabaseUrl,        \* AuthGuard.supabaseUrl
    jwksClientInstance, \* module-level JWKS client: <<>> (null) or <<client>>
    now,                \* the clock
    pc,                 \* "idle", "fetching", "verified", "done"
    authorization,      \* request.headers.authorization
    requestUser,        \* request.user: <<>> (never written) or <<user>>
    token,              \* what extractTokenFromHeader returned
    jwt,                \* what the token decodes to: <<>> or <<content>>
    verifyCalls,        \* the jwt.verify calls of this verification
    fetchCalls,         \* client.getSigningKey calls of this verification
    clientsCreated,     \* JWKS clients created by this verification
    fetchError,         \* error thrown by getSigningKey: "" for none
    result,             \* the verifier's result: <<>> or <<result>>
    thrown,             \* what canActivate threw: <<>> or <<exception>>
    admitted,           \* canActivate returned true
    geoInput,           \* argument of a safeParseGeometry call
    geoResult,          \* what the call left: <<>> before it, <<outcome>>
    reader,             \* the reader class that serves the resource
    storeResult,        \* result.rows the store answers with
    rpc,                \* "idle", "querying", "looping", "returned", "threw"
    rows,               \* result.rows inside the reader
    idx,                \* rows the loop has gone through
    features,           \* the features array
    skippedCount,       \* the skip counter
    loopEntered,        \* the for statement was reached
    collection,         \* what the reader returned: <<>> or <<collection>>
    readerError,        \* what the reader threw: <<>> or <<exception>>
    queryError,         \* what the store query threw: <<>> or <<cause>>
    queries,            \* store queries of this call
    previous,           \* what the call before returned: <<>> or <<c>>
    route,              \* route of the request: <<>> or <<path>>
    served,             \* the route's handler has run
    exception,          \* what reached the filter: <<>> or <<exception>>
    response,           \* what was sent: <<>> or <<response>>
    verifications,      \* the verifySupabaseJwt calls of concurrent requests
    clientsMade,        \* the JWKS clients created by the process, in order
    resolutions,        \* the calls that reached getJwksClient, in order
    isoInput,           \* argument of a safeISOString call
    isoResult,          \* what the call returned: <<>> before it, <<string>>
    loader,             \* the ingestion script that runs
    parsed,             \* the records the script parsed from its file
    stats,              \* the script's IngestionStats
    loopIndex,          \* i of the script's for loop
    lpc,                \* "start", "truncating", "looping", "inserting",
                        \* "printed", "exited"
    stored              \* the records the table holds, in insertion order

authVars == <<jwtSecret, supabaseUrl, jwksClientInstance, now, pc,
              authorization, requestUser, token, jwt, verifyCalls, fetchCalls,
              clientsCreated, fetchError, result, thrown, admitted>>

geoVars == <<geoInput, geoResult>>

readerVars == <<reader, storeResult, rpc, rows, idx, features, skippedCount,
                loopEntered, collection, readerError, queryError, queries,
                previous>>

routeVars == <<route, served>>

filterVars == <<exception, response>>

\* the variables of the remaining specifications
jwksVars == <<verifications, clientsMade, resolutions>>

isoVars == <<isoInput, isoResult>>

loaderVars == <<loader, parsed, stats, loopIndex, lpc, stored>>

restVars == <<filterVars, jwksVars, isoVars, loaderVars>>

vars == <<authVars, geoVars, readerVars, routeVars, restVars>>

\* the parts of the state that a specification leaves alone
nonAuthVars == <<geoVars, readerVars, routeVars, restVars>>

nonGeoVars == <<authVars, readerVars, routeVars, restVars>>

nonReaderVars == <<authVars, geoVars, routeVars, restVars>>

\* no safeParseGeometry call is being observed
GeoQuiet ==
    /\ geoInput = NullText
    /\ geoResult = <<>>

\* no reader call is being observed
ReaderIdle ==
    /\ rpc = "idle"
    /\ rows = <<>>
    /\ idx = 0
    /\ features = <<>>
    /\ skippedCount = 0
    /\ loopEntered = FALSE
    /\ collection = <<>>
    /\ readerError = <<>>
    /\ queryError = <<>>
    /\ queries = 0
    /\ previous = <<>>

ReaderQuiet ==
    /\ reader = [resource |-> "migration", sanitizes |-> TRUE]
    /\ storeResult = <<>>
    /\ ReaderIdle

\* no route is being observed
RouteQuiet ==
    /\ route = <<>>
    /\ served = FALSE

\* nothing has reached the filter and nothing was sent
FilterQuiet ==
    /\ exception = <<>>
    /\ response = <<>>

\* most verifySupabaseJwt calls of one behaviour
MaxRequests == 2

\* a call that has not been made
NotCalled ==
    [vpc |-> "idle", url |-> "", jwt |-> <<>>, client |-> <<>>,
     fetched |-> <<>>, result |-> <<>>]

\* no concurrent verification is being observed
JwksQuiet ==
    /\ verifications = [r \in 1..MaxRequests |-> NotCalled]
    /\ clientsMade = <<>>
    /\ resolutions = <<>>

\* no safeISOString call is being observed
IsoQuiet ==
    /\ isoInput = Null
    /\ isoResult = <<>>

\* createStats()
createStats == [total |-> 0, inserted |-> 0, skipped |-> 0, errors |-> 0]

\* no ingestion script is being observed
LoaderQuiet ==
    /\ loader = "load_migration"
    /\ parsed = <<>>
    /\ stats = createStats
    /\ loopIndex = 0
    /\ lpc = "start"
    /\ stored = <<>>

RestQuiet == FilterQuiet /\ JwksQuiet /\ IsoQuiet /\ LoaderQuiet

\* new UnauthorizedException(message)
UnauthorizedException(message) == [status |-> 401, message |-> message]

MissingToken == <<"Missing authentication token">>

AuthenticationFailed == <<"Authentication failed">>

\* a guard that logs the failure and forgets to throw
Rejects_Never(r) == FALSE

\* the guard's test of the verifier's result
Rejects(r) == ~r.valid \/ r.user = <<>>

\* AuthGuard constructor: secret ?? '' and supabaseUrl ?? ''
Init ==
    /\ jwtSecret \in {Nullish(e, "") : e \in SecretEnv}
    /\ supabaseUrl \in {Nullish(e, "") : e \in UrlEnv}
    /\ jwksClientInstance = <<>>
    /\ now = 1
    /\ pc = "idle"
    /\ authorization = <<>>
    /\ requestUser = <<>>
    /\ token = <<>>
    /\ jwt = <<>>
    /\ verifyCalls = <<>>
    /\ fetchCalls = 0
    /\ clientsCreated = 0
    /\ fetchError = ""
    /\ result = <<>>
    /\ thrown = <<>>
    /\ admitted = FALSE
    /\ GeoQuiet
    /\ ReaderQuiet
    /\ RouteQuiet
    /\ RestQuiet

\* canActivate of a new request, up to the await of verifySupabaseJwt: the
\* header is extracted, and the verifier runs until it returns or suspends
\* on the key fetch
CanActivate(header, content) ==
    /\ pc = "idle"
    /\ authorization' = header
    /\ requestUser' = <<>>
    /\ admitted' = FALSE
    /\ fetchError' = ""
    /\ LET extracted == extractTokenFromHeader(header)
       IN  /\ token' = extracted
           /\ IF extracted = <<>>
              THEN /\ thrown' = <<UnauthorizedException(MissingToken)>>
                   /\ pc' = "done"
                   /\ jwt' = <<>>
                   /\ verifyCalls' = <<>>
                   /\ fetchCalls' = 0
                   /\ clientsCreated' = 0
                   /\ result' = <<>>
                   /\ UNCHANGED jwksClientInstance
              ELSE LET v == VerifyStart(extracted[1], content, jwtSecret,
                                        supabaseUrl, jwksClientInstance, now)
                   IN  /\ thrown' = <<>>
                       /\ pc' = IF v.suspended THEN "fetching" ELSE "verified"
                       /\ jwt' = JwtDecode(extracted[1], content)
                       /\ verifyCalls' = v.calls
                       /\ fetchCalls' = v.fetches
                       /\ clientsCreated' =
                              IF v.instance # jwksClientInstance THEN 1 ELSE 0
                       /\ result' = v.result
                       /\ jwksClientInstance' = v.instance
    /\ UNCHANGED <<jwtSecret, supabaseUrl, now>>
    /\ UNCHANGED nonAuthVars

\* the pending key fetch settles and verifySupabaseJwt runs to its result
GetSigningKeySettles(outcome) ==
    /\ pc = "fetching"
    /\ LET fetched == getSigningKey(jwksClientInstance[1], jwt[1].kid, outcome)
       IN  IF fetched.key = <<>>
           THEN /\ fetchError' = fetched.error
                /\ result' = <<Catch(fetched.error)>>
                /\ UNCHANGED verifyCalls
           ELSE LET calls == VerifyES256(jwt[1], fetched.key[1], now)
                IN  /\ fetchError' = ""
                    /\ verifyCalls' = calls
                    /\ result' = <<Conclude(jwt[1], calls[1].outcome)>>
    /\ pc' = "verified"
    /\ UNCHANGED <<jwtSecret, supabaseUrl, jwksClientInstance, now,
                   authorization, requestUser, token, jwt, fetchCalls,
                   clientsCreated, thrown, admitted>>
    /\ UNCHANGED nonAuthVars

\* canActivate after the await: reject by throwing, or attach the user
CanActivateResumes ==
    /\ pc = "verified"
    /\ LET r == result[1]
       IN  IF Rejects(r)
           THEN /\ thrown' = <<UnauthorizedException(
                                 IF r.error = <<>> THEN AuthenticationFailed
                                 ELSE r.error)>>
                /\ UNCHANGED <<requestUser, admitted>>
           ELSE /\ requestUser' = r.user
                /\ admitted' = TRUE
                /\ UNCHANGED thrown
    /\ pc' = "done"
    /\ UNCHANGED <<jwtSecret, supabaseUrl, jwksClientInstance, now,
                   authorization, token, jwt, verifyCalls, fetchCalls,
                   clientsCreated, fetchError, result>>
    /\ UNCHANGED nonAuthVars

\* the request ends (handler response or error response) and its objects
\* are discarded; the process waits for the next request
RequestEnds ==
    /\ pc = "done"
    /\ pc' = "idle"
    /\ authorization' = <<>>
    /\ requestUser' = <<>>
    /\ token' = <<>>
    /\ jwt' = <<>>
    /\ verifyCalls' = <<>>
    /\ fetchCalls' = 0
    /\ clientsCreated' = 0
    /\ fetchError' = ""
    /\ result' = <<>>
    /\ thrown' = <<>>
    /\ admitted' = FALSE
    /\ UNCHANGED <<jwtSecret, supabaseUrl, jwksClientInstance, now>>
    /\ UNCHANGED nonAuthVars

\* time passes
Tick ==
    /\ now < MaxNow
    /\ now' = now + 1
    /\ UNCHANGED <<jwtSecret, supabaseUrl, jwksClientInstance, pc,
                   authorization, requestUser, token, jwt, verifyCalls,
                   fetchCalls, clientsCreated, fetchError, result, thrown,
                   admitted>>
    /\ UNCHANGED nonAuthVars

\* a request's token content matters only when its header carries the token
ContentsOf(header) ==
    IF extractTokenFromHeader(header) = <<TokenText>> THEN Tokens
    ELSE {CHOOSE content \in Tokens : TRUE}

\* a request arrives at a protected route
Request ==
    /\ pc = "idle"
    /\ \E header \in Headers : \E content \in ContentsOf(header) :
           CanActivate(header, content)

Next ==
    \/ Request
    \/ \E outcome \in FetchOutcomes : GetSigningKeySettles(outcome)
    \/ CanActivateResumes
    \/ RequestEnds
    \/ Tick

Spec == Init /\ [][Next]_vars

TypeOK ==
    /\ pc \in {"idle", "fetching", "verified", "done"}
    /\ now \in 1..MaxNow
    /\ fetchCalls \in 0..1

\* ------------------------------------------------------------------------
\* Properties of the token verifier and the guard
\* ------------------------------------------------------------------------

\* the verifier has returned for a token that decodes
Verified == result # <<>> /\ jwt # <<>>

\* clock time of the jwt.verify calls of this verification
VerifiedAt == verifyCalls[Len(verifyCalls)].clockTimestamp

\* the token carries the signature of the configured secret, in either form
SignedWithSecret ==
    /\ Truthy(jwtSecret)
    /\ jwt[1].signKey \in {RawKey(jwtSecret), Base64Key(jwtSecret)}

\* C1: every HS256 token with a non-empty sub and an unexpired exp that is
\* signed with the configured secret, as raw bytes or as base64-decoded
\* bytes, is reported valid with user.sub equal to the token's sub.
C1_HS256Accepted ==
    (/\ Verified
     /\ jwt[1].alg = "HS256"
     /\ SignedWithSecret
     /\ Truthy(jwt[1].sub)
     /\ jwt[1].exp # <<>>
     /\ jwt[1].exp[1] > VerifiedAt)
    => /\ result[1].valid
       /\ result[1].user # <<>>
       /\ result[1].user[1].sub = jwt[1].sub

\* C1 witness: a token signed with the base64-decoded secret was accepted
\* on the second attempt.
C1_Witness ==
    /\ Verified
    /\ jwt[1].alg = "HS256"
    /\ jwt[1].signKey = Base64Key(jwtSecret)
    /\ Len(verifyCalls) = 2
    /\ result[1].valid
    /\ result[1].user[1].sub = "user-1"

\* the signature is valid under the key of the branch taken
SignatureValidInBranch ==
    \/ jwt[1].alg = "HS256" /\ SignedWithSecret
    \/ /\ jwt[1].alg = "ES256"
       /\ verifyCalls # <<>>
       /\ verifyCalls[1].key = jwt[1].signKey

\* C2: every token whose signature is valid under the key of its branch and
\* whose exp is in the past is rejected with the reason 'Token has
\* expired', for ES256 and for HS256 with either form of the secret.
C2_ExpiredReported ==
    (/\ Verified
     /\ SignatureValidInBranch
     /\ jwt[1].exp # <<>>
     /\ jwt[1].exp[1] < VerifiedAt)
    => result[1] = Invalid(Expired)

\* C3: a decodable token whose alg is neither HS256 nor ES256 is rejected
\* with the unsupported-algorithm reason, and the call creates no JWKS
\* client and starts no key fetch.
C3_UnsupportedAlgorithm ==
    (jwt # <<>> /\ jwt[1].alg \notin {"HS256", "ES256"})
    => /\ pc \in {"verified", "done"}
       /\ result = <<Invalid(UnsupportedAlgorithm(jwt[1].alg))>>
       /\ clientsCreated = 0
       /\ fetchCalls = 0

\* C3 witness: an RS256 token with a kid was rejected by a verifier that has
\* an endpoint, before any JWKS client existed.
C3_Witness ==
    /\ Verified
    /\ jwt[1].alg = "RS256"
    /\ jwt[1].kid = "k1"
    /\ Truthy(supabaseUrl)
    /\ jwksClientInstance = <<>>
    /\ result[1].error = UnsupportedAlgorithm("RS256")

\* C4: an ES256 token with a kid, presented to a verifier with a secret and
\* no endpoint, is rejected by a returned result whose reason is not the
\* one returned for an unsupported algorithm.
C4_MissingConfiguration ==
    (/\ Verified
     /\ jwt[1].alg = "ES256"
     /\ Truthy(jwt[1].kid)
     /\ Truthy(jwtSecret)
     /\ ~Truthy(supabaseUrl))
    => /\ ~result[1].valid
       /\ result[1].error # UnsupportedAlgorithm(jwt[1].alg)

\* C5: every jwt.verify call pairs the key kind and the accepted algorithms
\* of the branch chosen from the header alg (HS256: the secret and {HS256};
\* ES256: the JWKS public key and {ES256}), and a token is accepted only
\* with the signature of a key of its own branch.
C5_AlgorithmPinning ==
    /\ \A i \in DOMAIN verifyCalls :
          LET call == verifyCalls[i]
          IN  \/ /\ call.alg = "HS256"
                 /\ call.key.kind = "secret"
                 /\ call.algorithms = {"HS256"}
              \/ /\ call.alg = "ES256"
                 /\ call.key.kind = "public"
                 /\ call.algorithms = {"ES256"}
    /\ (Verified /\ result[1].valid)
       => \/ jwt[1].alg = "HS256" /\ jwt[1].signKey.kind = "secret"
          \/ jwt[1].alg = "ES256" /\ jwt[1].signKey.kind = "public"

\* C5 witness: an ES256 token went through the JWKS branch and was accepted,
\* checked once against the public key.
C5_Witness ==
    /\ Verified
    /\ jwt[1].alg = "ES256"
    /\ Len(verifyCalls) = 1
    /\ verifyCalls[1].key = PublicKey(supabaseUrl, "k1")
    /\ result[1].valid

\* C6: a token is reported valid only if its signature verified under the
\* selected key, its exp was in the future at verification time and its sub
\* is non-empty; a token that passes the signature and expiry checks with
\* an empty or absent sub is rejected with the missing-subject reason.
C6_ValidOnlyIf ==
    /\ (Verified /\ result[1].valid)
       => /\ verifyCalls # <<>>
          /\ verifyCalls[Len(verifyCalls)].key = jwt[1].signKey
          /\ jwt[1].exp # <<>>
          /\ jwt[1].exp[1] > VerifiedAt
          /\ Truthy(jwt[1].sub)
    /\ (/\ Verified
        /\ verifyCalls # <<>>
        /\ verifyCalls[Len(verifyCalls)].outcome = "ok"
        /\ ~Truthy(jwt[1].sub))
       => result[1] = Invalid(MissingSubject)

\* C7: when the key of an ES256 token cannot be obtained, the verification
\* fails with a reason that is neither the invalid-signature reason nor the
\* unexpected-failure reason.
C7_KeyFetchFailed ==
    (Verified /\ fetchError # "")
    => /\ ~result[1].valid
       /\ result[1].error \notin {InvalidSignature, Unexpected}

\* the header is 'Bearer', one space and a non-empty token without spaces
ExactlyBearer(header) ==
    /\ header # <<>>
    /\ Len(header[1]) > Len(Bearer) + 1
    /\ SubSeq(header[1], 1, Len(Bearer)) = Bearer
    /\ \A i \in (Len(Bearer) + 1)..Len(header[1]) :
          (header[1][i] = " ") <=> (i = Len(Bearer) + 1)

\* C8: a token is extracted only from a header that is exactly 'Bearer', one
\* space and a non-empty token with nothing after it; every other header
\* yields null and the guard rejects the request as missing its token.
C8_ExactBearer ==
    pc # "idle"
    => /\ (token # <<>>) <=> ExactlyBearer(authorization)
       /\ token # <<>> => authorization[1] = Bearer \o Space \o token[1]
       /\ token = <<>> => thrown = <<UnauthorizedException(MissingToken)>>

\* the reasons of the verifier that are fixed strings
FixedReasons ==
    {NoToken, MalformedToken, MissingSecret, MissingSubject, Expired,
     InvalidSignature, Unexpected}

\* C9: a failed verification is rejected with status 401 and a message that
\* is one of the verifier's fixed reasons and holds no text taken from the
\* unverified token.
C9_FixedReasons ==
    (Verified /\ thrown # <<>>)
    => /\ thrown[1].status = 401
       /\ thrown[1].message \in FixedReasons
       /\ \A i \in DOMAIN thrown[1].message :
             thrown[1].message[i] \notin
                 {jwt[1].alg, jwt[1].kid, jwt[1].sub, jwt[1].email}

\* C10: request.user is written if and only if the guard admits the
\* request; it is then the verifier's user, with a non-empty sub; a request
\* that is rejected has thrown and has no request.user.
C10_UserIffAdmitted ==
    /\ (requestUser # <<>>) <=> admitted
    /\ admitted
       => /\ thrown = <<>>
          /\ result # <<>>
          /\ result[1].valid
          /\ requestUser = result[1].user
          /\ Truthy(requestUser[1].sub)
    /\ thrown # <<>> => requestUser = <<>>
    /\ pc = "done" => (admitted <=> thrown = <<>>)

\* C10 witness: an admitted request carries the user of its token.
C10_Witness ==
    /\ pc = "done"
    /\ admitted
    /\ requestUser # <<>>
    /\ requestUser[1].sub = jwt[1].sub

\* ------------------------------------------------------------------------
\* The geometry sanitizer on its own
\* ------------------------------------------------------------------------

\* the guard is not part of this specification: it stays as constructed
\* without configuration and serves no request
AuthQuiet ==
    /\ jwtSecret = ""
    /\ supabaseUrl = ""
    /\ jwksClientInstance = <<>>
    /\ now = 1
    /\ pc = "idle"
    /\ authorization = <<>>
    /\ requestUser = <<>>
    /\ token = <<>>
    /\ jwt = <<>>
    /\ verifyCalls = <<>>
    /\ fetchCalls = 0
    /\ clientsCreated = 0
    /\ fetchError = ""
    /\ result = <<>>
    /\ thrown = <<>>
    /\ admitted = FALSE

\* a caller is about to pass any of the inputs
InitSanitizer ==
    /\ AuthQuiet
    /\ ReaderQuiet
    /\ RouteQuiet
    /\ RestQuiet
    /\ geoInput \in GeometryInputs
    /\ geoResult = <<>>

\* the call of safeParseGeometry
Sanitize ==
    /\ geoResult = <<>>
    /\ geoResult' = <<safeParseGeometry(geoInput)>>
    /\ UNCHANGED geoInput
    /\ UNCHANGED nonGeoVars

NextSanitizer == Sanitize

SpecSanitizer == InitSanitizer /\ [][NextSanitizer]_vars

\* the text parses to an object that has a usable type and usable
\* coordinates (a member that is absent, null, zero or empty is lacking)
HasTypeAndCoordinates(input) ==
    /\ input.kind = "string"
    /\ JsonParse(input.text).ok
    /\ JsonParse(input.text).value.t = "object"
    /\ ~Falsy(GetProperty(JsonParse(input.text).value, "type"))
    /\ ~Falsy(GetProperty(JsonParse(input.text).value, "coordinates"))

\* C12: safeParseGeometry never raises; it returns null for null, undefined,
\* empty text, unparseable text, text that parses to a non-object and
\* objects lacking type or coordinates, and a geometry for every other
\* input.
C12_NeverRaises ==
    geoResult # <<>>
    => /\ ~geoResult[1].raised
       /\ (geoResult[1].geometry # <<>>) <=> HasTypeAndCoordinates(geoInput)
       /\ geoResult[1].geometry # <<>>
          => /\ geoResult[1].geometry[1].t = "object"
             /\ GetProperty(geoResult[1].geometry[1], "type").t = "string"

\* C12 witness: a truncated text went through the call and came back as
\* null.
C12_Witness ==
    /\ geoResult # <<>>
    /\ geoInput.kind = "string"
    /\ geoInput.text # <<>>
    /\ ~JsonParse(geoInput.text).ok
    /\ geoResult[1] = Returned(<<>>)

\* C13: sanitizing the serialized text of a well-formed structure with a
\* type and a coordinates field returns that structure, member for member;
\* an input that is empty, not parseable or without coordinates gives null.
C13_RoundTrip ==
    geoResult # <<>>
    => /\ \A g \in WellFormedGeometries :
             geoInput = Text(JsonStringify(g))
             => geoResult[1] = Returned(<<g>>)
       /\ (\/ geoInput.kind # "string"
           \/ geoInput.text = <<>>
           \/ ~JsonParse(geoInput.text).ok
           \/ GetProperty(JsonParse(geoInput.text).value, "coordinates")
                  = JUndefined)
          => geoResult[1] = Returned(<<>>)

\* C13 witness: a serialized geometry with a further member came back.
C13_Witness ==
    /\ geoResult # <<>>
    /\ geoResult[1].geometry # <<>>
    /\ geoResult[1].geometry[1] \in WellFormedGeometries
    /\ Len(geoResult[1].geometry[1].v) = 3
    /\ geoInput = Text(JsonStringify(geoResult[1].geometry[1]))


\* ------------------------------------------------------------------------
\* The resource readers
\* ------------------------------------------------------------------------

\* one reader of the repository over one table content
InitReader ==
    /\ AuthQuiet
    /\ GeoQuiet
    /\ RouteQuiet
    /\ RestQuiet
    /\ reader \in Readers
    /\ storeResult \in StoreResults
    /\ ReaderIdle

\* a reader without the test for an empty result
IsEmptyResult_Never(answer) == FALSE

\* !result.rows || result.rows.length === 0
IsEmptyResult(answer) == answer = <<>> \/ answer[1] = <<>>

\* getMigrationFlows / getGrowthZones / getDigitalRisk is called and awaits
\* this.databaseService.query
ReaderStarts ==
    /\ rpc \in {"idle", "returned", "threw"}
    /\ rpc' = "querying"
    /\ queries' = 1
    /\ previous' = IF collection # <<>> THEN collection ELSE previous
    /\ rows' = <<>>
    /\ idx' = 0
    /\ features' = <<>>
    /\ skippedCount' = 0
    /\ loopEntered' = FALSE
    /\ collection' = <<>>
    /\ readerError' = <<>>
    /\ queryError' = <<>>

\* a call of the reader of this specification
ReaderCall ==
    /\ ReaderStarts
    /\ UNCHANGED <<reader, storeResult>>
    /\ UNCHANGED nonReaderVars

\* the reader throws from its catch block
ReaderThrows(error) ==
    /\ rpc' = "threw"
    /\ readerError' = <<ReaderCatch(reader.resource, error)>>
    /\ UNCHANGED <<rows, idx, features, skippedCount, loopEntered,
                   collection>>

\* the reader returns a collection
ReaderReturns(c) ==
    /\ rpc' = "returned"
    /\ collection' = <<c>>
    /\ UNCHANGED <<rows, idx, features, skippedCount, loopEntered,
                   readerError>>

\* a reader that issues its query again after a failure
QuerySettles_Retry(outcome) ==
    /\ rpc = "querying"
    /\ UNCHANGED <<reader, storeResult, previous>>
    /\ UNCHANGED nonReaderVars
    /\ IF outcome \in QueryFailures /\ queries < 2
       THEN /\ queryError' = <<outcome>>
            /\ queries' = queries + 1
            /\ UNCHANGED <<rpc, rows, idx, features, skippedCount,
                           loopEntered, collection, readerError>>
       ELSE IF outcome \in QueryFailures
       THEN /\ queryError' = <<outcome>>
            /\ ReaderThrows(outcome)
            /\ UNCHANGED queries
       ELSE /\ queryError' = <<>>
            /\ UNCHANGED queries
            /\ IF reader.sanitizes
               THEN IF IsEmptyResult(storeResult)
                    THEN ReaderReturns(emptyFeatureCollection)
                    ELSE IF storeResult = <<>>
                    THEN /\ loopEntered' = TRUE
                         /\ rpc' = "threw"
                         /\ readerError' =
                                <<ReaderCatch(reader.resource, "TypeError")>>
                         /\ UNCHANGED <<rows, idx, features, skippedCount,
                                        collection>>
                    ELSE /\ rows' = storeResult[1]
                         /\ loopEntered' = TRUE
                         /\ rpc' = "looping"
                         /\ UNCHANGED <<idx, features, skippedCount,
                                        collection, readerError>>
               ELSE IF storeResult = <<>>
                    THEN ReaderThrows("TypeError")
                    ELSE IF \E i \in DOMAIN storeResult[1] :
                                PlainRowThrows(storeResult[1][i])
                    THEN ReaderThrows("SyntaxError")
                    ELSE ReaderReturns(FeatureCollection(
                             PlainFeatures(reader.resource, storeResult[1])))

\* the query settles: it rejects, or it resolves and the reader runs on to
\* its loop (sanitizing readers) or through its map (plain readers)
QuerySettles(outcome) ==
    /\ rpc = "querying"
    /\ UNCHANGED <<reader, storeResult, queries, previous>>
    /\ UNCHANGED nonReaderVars
    /\ IF outcome \in QueryFailures
       THEN /\ queryError' = <<outcome>>
            /\ ReaderThrows(outcome)
       ELSE /\ queryError' = <<>>
            /\ IF reader.sanitizes
               THEN IF IsEmptyResult(storeResult)
                    THEN ReaderReturns(emptyFeatureCollection)
                    ELSE IF storeResult = <<>>
                    THEN /\ loopEntered' = TRUE
                         /\ rpc' = "threw"
                         /\ readerError' =
                                <<ReaderCatch(reader.resource, "TypeError")>>
                         /\ UNCHANGED <<rows, idx, features, skippedCount,
                                        collection>>
                    ELSE /\ rows' = storeResult[1]
                         /\ loopEntered' = TRUE
                         /\ rpc' = "looping"
                         /\ UNCHANGED <<idx, features, skippedCount,
                                        collection, readerError>>
               ELSE IF storeResult = <<>>
                    THEN ReaderThrows("TypeError")
                    ELSE IF \E i \in DOMAIN storeResult[1] :
                                PlainRowThrows(storeResult[1][i])
                    THEN ReaderThrows("SyntaxError")
                    ELSE ReaderReturns(FeatureCollection(
                             PlainFeatures(reader.resource, storeResult[1])))

\* one iteration of for (const row of result.rows)
LoopStep ==
    /\ rpc = "looping"
    /\ idx < Len(rows)
    /\ LET after == LoopBody(reader.resource, rows[idx + 1], features,
                             skippedCount, now)
       IN  /\ features' = after.features
           /\ skippedCount' = after.skippedCount
    /\ idx' = idx + 1
    /\ UNCHANGED <<reader, storeResult, rpc, rows, loopEntered, collection,
                   readerError, queryError, queries, previous>>
    /\ UNCHANGED nonReaderVars

\* the loop is over: return { type: 'FeatureCollection', features }
LoopEnds ==
    /\ rpc = "looping"
    /\ idx = Len(rows)
    /\ rpc' = "returned"
    /\ collection' = <<FeatureCollection(features)>>
    /\ UNCHANGED <<reader, storeResult, rows, idx, features, skippedCount,
                   loopEntered, readerError, queryError, queries, previous>>
    /\ UNCHANGED nonReaderVars

NextReader ==
    \/ ReaderCall
    \/ \E outcome \in {"rows"} \cup QueryFailures : QuerySettles(outcome)
    \/ LoopStep
    \/ LoopEnds
    \/ Tick

SpecReader == InitReader /\ [][NextReader]_vars


\* the sanitizer finds no geometry in the row
Unsanitizable(row) == safeParseGeometry(row.geojson).geometry = <<>>

SkippedIn(rs) == Cardinality({i \in DOMAIN rs : Unsanitizable(rs[i])})

Usable(row) == ~Unsanitizable(row)

\* the rows that keep their place in the collection
Kept(rs) == SelectSeq(rs, Usable)

C15_SameOrder ==
    (rpc \in {"looping", "returned"} /\ loopEntered)
    => LET kept == Kept(SubSeq(rows, 1, idx))
       IN  /\ Len(features) = Len(kept)
           /\ \A i \in DOMAIN features :
                /\ features[i].properties.id = Default(kept[i].id, "")
                /\ <<features[i].geometry>>
                       = safeParseGeometry(kept[i].geojson).geometry
           /\ rpc = "returned" => collection[1].features = features

C15_Witness ==
    /\ rpc = "returned"
    /\ loopEntered
    /\ Len(collection[1].features) = 2
    /\ collection[1].features[1].properties.id
           # collection[1].features[2].properties.id

Classifications == {"rural", "peri-urban", "urban"}

RiskLevels == {"low", "medium", "high"}

\* the property of a feature that holds the score
ScoreOf(properties) ==
    IF reader.resource = "migration" THEN properties.migration_score
    ELSE IF reader.resource = "growth-zones" THEN properties.growth_score
    ELSE properties.risk_score

Malformed(row) ==
    row.geojson.kind = "string" /\ ~JsonParse(row.geojson.text).ok

\* the timestamp column holds a valid Date
Dated(row) == row.created_at # Null /\ row.created_at[1].valid

\* C19: in every reader of the repository, when the query resolves with
\* rows of which some carry malformed geometry text (and all carry a valid
\* timestamp), the reader returns a collection without those rows and
\* throws no retrieval error.
C19_MalformedRowDropped ==
    (/\ rpc \in {"returned", "threw"}
     /\ queryError = <<>>
     /\ storeResult # <<>>
     /\ \E i \in DOMAIN storeResult[1] : Malformed(storeResult[1][i])
     /\ \A i \in DOMAIN storeResult[1] : Dated(storeResult[1][i]))
    => /\ rpc = "returned"
       /\ readerError = <<>>
       /\ Len(collection[1].features)
              <= Cardinality({i \in DOMAIN storeResult[1] :
                                 ~Malformed(storeResult[1][i])})

\* the rows behind the features of the collection returned
Emitted == IF reader.sanitizes THEN Kept(rows) ELSE storeResult[1]

\* the columns of the row give the feature nothing taken from the clock
ClockFree(row) ==
    /\ Dated(row)
    /\ reader.resource = "migration" => row.year # Null

\* C20 as stated: a second call over the same store result returns the
\* collection of the first call, whatever the rows.
C20_SameCollection ==
    (rpc = "returned" /\ previous # <<>>) => collection = previous

\* C20, amended: a second call over the same store result returns the same
\* features in the same order, equal in the geometry and in every property
\* but created_at and year; a feature is equal in those too when its row
\* has a valid created_at (and, in the flow reader, a year), and otherwise
\* carries the time (the year) of its own call.
C20_SameButClock ==
    (rpc = "returned" /\ previous # <<>>)
    => LET before == previous[1].features
           after == collection[1].features
       IN  /\ collection[1].type = previous[1].type
           /\ Len(after) = Len(before)
           /\ \A i \in DOMAIN after :
                /\ after[i].type = before[i].type
                /\ after[i].geometry = before[i].geometry
                /\ \A f \in DOMAIN after[i].properties
                             \ {"created_at", "year"} :
                       after[i].properties[f] = before[i].properties[f]
                /\ ClockFree(Emitted[i]) => after[i] = before[i]

C20_Witness ==
    /\ rpc = "returned"
    /\ previous # <<>>
    /\ now = MaxNow
    /\ reader.sanitizes
    /\ Len(collection[1].features) = 2
    /\ ClockFree(Emitted[2])
    /\ ~ClockFree(Emitted[1])
    /\ collection[1].features[2] = previous[1].features[2]
    /\ collection[1].features[1] # previous[1].features[1]


\* ------------------------------------------------------------------------
\* The routes: guard first, then the handler and its reader
\* ------------------------------------------------------------------------

Routes == {"/health", "/health/me", "/migration", "/growth-zones",
           "/digital-risk"}

\* the routes whose handler reads a resource
ReaderRoutes == {"/migration", "/growth-zones", "/digital-risk"}

ResourceOf(path) ==
    IF path = "/migration" THEN "migration"
    ELSE IF path = "/growth-zones" THEN "growth-zones"
    ELSE "digital-risk"

\* the decorators with DigitalRiskController left without its guard
UseGuards_RiskOpen(path) ==
    path \in {"/health/me", "/migration", "/growth-zones"}

\* @UseGuards(AuthGuard) on the controller class or on the handler
UseGuards(path) ==
    path \in {"/health/me", "/migration", "/growth-zones", "/digital-risk"}

\* the requests of this specification: no header, a Bearer and a Basic
\* header, tokens of both algorithms under every signing key
RouteHeaders ==
    {<<>>, <<Bearer \o Space \o TokenText>>, <<Basic \o Space \o TokenText>>}

RouteTokens ==
    {t \in Tokens : /\ t.alg \in {"HS256", "ES256"}
                    /\ t.kid = "k1"
                    /\ t.sub = "user-1"
                    /\ t.email = Undefined
                    /\ t.exp = <<>>}

RouteContents(header) ==
    IF extractTokenFromHeader(header) = <<TokenText>> THEN RouteTokens
    ELSE {CHOOSE content \in RouteTokens : TRUE}

\* table contents of this specification
RouteResults ==
    {<<>>, << <<>> >>,
     << <<CompleteRow("c-point", Text(PointText))>> >>,
     << <<BareRow(Text(TruncatedText)),
          CompleteRow("c-point", Text(PointText))>> >>}

\* the application as constructed: the guard configured from the
\* environment, one version of the readers, no request yet
InitRoutes ==
    /\ jwtSecret \in {Nullish(e, "") : e \in SecretEnv}
    /\ supabaseUrl \in {Nullish(e, "") : e \in UrlEnv}
    /\ jwksClientInstance = <<>>
    /\ now = 1
    /\ pc = "idle"
    /\ authorization = <<>>
    /\ requestUser = <<>>
    /\ token = <<>>
    /\ jwt = <<>>
    /\ verifyCalls = <<>>
    /\ fetchCalls = 0
    /\ clientsCreated = 0
    /\ fetchError = ""
    /\ result = <<>>
    /\ thrown = <<>>
    /\ admitted = FALSE
    /\ GeoQuiet
    /\ reader \in Readers
    /\ storeResult \in RouteResults
    /\ ReaderIdle
    /\ RouteQuiet
    /\ RestQuiet

\* a request arrives and is routed
Arrives(path) ==
    /\ route = <<>>
    /\ pc = "idle"
    /\ route' = <<path>>
    /\ served' = FALSE
    /\ exception' = <<>>
    /\ response' = <<>>
    /\ UNCHANGED <<authVars, geoVars, readerVars, jwksVars, isoVars,
                   loaderVars>>

\* the guard of the route runs before the handler
GuardRuns ==
    /\ route # <<>>
    /\ pc = "idle"
    /\ ~served
    /\ UseGuards(route[1])
    /\ \E header \in RouteHeaders : \E content \in RouteContents(header) :
           CanActivate(header, content)

\* the handler of the route runs: at once on a route without guard, after
\* canActivate returned true on a route with one; the handlers of the
\* reader routes call their reader
HandlerRuns ==
    /\ route # <<>>
    /\ ~served
    /\ IF UseGuards(route[1]) THEN pc = "done" /\ admitted ELSE pc = "idle"
    /\ served' = TRUE
    /\ UNCHANGED <<route, authVars, geoVars, restVars>>
    /\ IF route[1] \in ReaderRoutes
       THEN /\ ReaderStarts
            /\ reader' = [resource |-> ResourceOf(route[1]),
                          sanitizes |-> reader.sanitizes]
            /\ UNCHANGED storeResult
       ELSE UNCHANGED readerVars

\* what the handler of the route returned
HandlerResult(path) ==
    IF path = "/health"
    THEN [status |-> "ok", timestamp |-> ISOString(now)]
    ELSE IF path = "/health/me" THEN [user |-> requestUser[1]]
    ELSE collection[1]

\* the response is sent: by the filter after the guard threw or the reader
\* threw, else with what the handler returned
Responds ==
    /\ route # <<>>
    /\ \/ pc = "done" /\ thrown # <<>>
       \/ served /\ route[1] \notin ReaderRoutes
       \/ served /\ rpc \in {"returned", "threw"}
    /\ route' = <<>>
    /\ served' = FALSE
    /\ rpc' = "idle"
    /\ rows' = <<>>
    /\ idx' = 0
    /\ features' = <<>>
    /\ skippedCount' = 0
    /\ loopEntered' = FALSE
    /\ collection' = <<>>
    /\ readerError' = <<>>
    /\ queryError' = <<>>
    /\ queries' = 0
    /\ previous' = <<>>
    /\ exception' =
           IF thrown # <<>>
           THEN <<NestException(thrown[1].status, thrown[1].message)>>
           ELSE IF readerError # <<>>
           THEN <<NestException(readerError[1].status,
                                <<readerError[1].message>>)>>
           ELSE <<>>
    /\ response' =
           IF exception' # <<>>
           THEN <<GlobalExceptionFilterCatch(exception'[1], now)>>
           ELSE <<Response(200, HandlerResult(route[1]))>>
    /\ UNCHANGED <<reader, storeResult, authVars, geoVars, jwksVars,
                   isoVars, loaderVars>>

\* the request is over for the guard too
RequestForgotten == route = <<>> /\ RequestEnds

NextRoutes ==
    \/ \E path \in Routes : Arrives(path)
    \/ GuardRuns
    \/ \E outcome \in FetchOutcomes : GetSigningKeySettles(outcome)
    \/ CanActivateResumes
    \/ HandlerRuns
    \/ \E outcome \in {"rows"} \cup QueryFailures : QuerySettles(outcome)
    \/ LoopStep
    \/ LoopEnds
    \/ Responds
    \/ RequestForgotten

SpecRoutes == InitRoutes /\ [][NextRoutes]_vars

\* C11: on /migration, /growth-zones, /digital-risk and /health/me the
\* handler has run, and a store query has been issued, only in requests
\* that the guard admitted; a request the guard rejected reaches no handler
\* and no reader; /health is served without the guard having run.
C11_GuardBeforeHandler ==
    /\ (/\ served
        /\ route[1] \in {"/migration", "/growth-zones", "/digital-risk",
                         "/health/me"})
       => /\ admitted
          /\ thrown = <<>>
          /\ requestUser # <<>>
    /\ (rpc # "idle" \/ queries > 0)
       => /\ admitted
          /\ served
          /\ route[1] \in {"/migration", "/growth-zones", "/digital-risk"}
    /\ thrown # <<>> => /\ ~served
                        /\ rpc = "idle"
                        /\ queries = 0
    /\ route = <<"/health">> => /\ pc = "idle"
                                /\ authorization = <<>>
                                /\ token = <<>>
                                /\ verifyCalls = <<>>

C11_Witness ==
    /\ route = <<"/digital-risk">>
    /\ served
    /\ admitted
    /\ rpc = "returned"
    /\ queries = 1
    /\ Len(collection[1].features) = 1


\* ------------------------------------------------------------------------
\* The filter on its own
\* ------------------------------------------------------------------------

\* an exception has reached the filter
InitFilter ==
    /\ AuthQuiet
    /\ GeoQuiet
    /\ ReaderQuiet
    /\ RouteQuiet
    /\ exception \in {<<e>> : e \in Exceptions}
    /\ response = <<>>
    /\ JwksQuiet
    /\ IsoQuiet
    /\ LoaderQuiet

\* GlobalExceptionFilter.catch(exception, host)
FilterCatches ==
    /\ response = <<>>
    /\ response' = <<GlobalExceptionFilterCatch(exception[1], now)>>
    /\ UNCHANGED <<exception, authVars, geoVars, readerVars, routeVars,
                   jwksVars, isoVars, loaderVars>>

NextFilter ==
    \/ FilterCatches
    \/ Tick

SpecFilter == InitFilter /\ [][NextFilter]_vars

\* C21: whatever reaches the filter, the body sent is exactly {statusCode,
\* message, timestamp} with statusCode the status sent; for an exception
\* that is no HttpException the status is 500 and the message the fixed
\* 'Internal server error', never the exception's message or stack.
C21_Envelope ==
    (exception # <<>> /\ response # <<>>)
    => /\ DOMAIN response[1].body = {"statusCode", "message", "timestamp"}
       /\ response[1].body.statusCode = response[1].status
       /\ exception[1].kind = "HttpException"
          => response[1].status = exception[1].status
       /\ exception[1].kind # "HttpException"
          => /\ response[1].status = 500
             /\ response[1].body.message = <<"Internal server error">>
             /\ response[1].body.message # exception[1].message
             /\ response[1].body.message # exception[1].stack

C21_Witness ==
    /\ response # <<>>
    /\ exception[1].kind = "Error"
    /\ exception[1].message = <<"connect ECONNREFUSED 10.0.0.5:5432">>
    /\ exception[1].stack # <<>>
    /\ response[1].status = 500


\* C22: on a protected route, a request without Authorization header and a
\* request whose token the verifier rejects make the guard throw its 401
\* exception, and the response then sent has status 401 and the body
\* {statusCode: 401, message, timestamp}, the message being that of the
\* exception: 'Missing authentication token' when no token was extracted,
\* else the verifier's reason.
C22_Unauthorized ==
    /\ (/\ pc = "done"
        /\ \/ authorization = <<>>
           \/ result # <<>> /\ ~result[1].valid)
       => /\ thrown # <<>>
          /\ thrown[1].status = 401
          /\ ~admitted
    /\ (response # <<>> /\ thrown # <<>>)
       => /\ response[1].status = 401
          /\ DOMAIN response[1].body
                 = {"statusCode", "message", "timestamp"}
          /\ response[1].body.statusCode = 401
          /\ token = <<>>
             => response[1].body.message = <<"Missing authentication token">>
          /\ token # <<>>
             => response[1].body.message = result[1].error

C22_Witness ==
    /\ response # <<>>
    /\ thrown # <<>>
    /\ authorization = <<>>
    /\ response[1].status = 401
    /\ response[1].body.message = <<"Missing authentication token">>


\* ------------------------------------------------------------------------
\* Concurrent verifications over the module-level JWKS client
\* ------------------------------------------------------------------------

\* a second project, whose key set the issuer does not publish
OtherUrl == "https://other.supabase.co"

\* the supabaseUrl arguments of the calls
CallUrls == {"", IssuerUrl, OtherUrl}

\* the tokens of the calls: both algorithms, with and without key id
CallTokens ==
    {t \in Tokens : /\ t.alg \in {"HS256", "ES256"}
                    /\ t.kid \in {Undefined, "k1"}
                    /\ t.signKey = PublicKey(IssuerUrl, "k1")
                    /\ t.sub = "user-1"
                    /\ t.email = Undefined
                    /\ t.exp = <<>>}

\* the process has started: no client yet, no call made
InitJwks ==
    /\ AuthQuiet
    /\ GeoQuiet
    /\ ReaderQuiet
    /\ RouteQuiet
    /\ FilterQuiet
    /\ JwksQuiet
    /\ IsoQuiet
    /\ LoaderQuiet

\* request r calls verifySupabaseJwt(token, secret, supabaseUrl), which
\* runs to its return or to the await of getSigningKey; getJwksClient runs
\* inside this step, without an await between its test and its assignment
VerifyCalled(r, content, url) ==
    /\ verifications[r].vpc = "idle"
    /\ LET v == VerifyStart(TokenText, content, IssuerSecret, url,
                            jwksClientInstance, now)
       IN  /\ jwksClientInstance' = v.instance
           /\ clientsMade' = IF v.instance # jwksClientInstance
                             THEN Append(clientsMade, v.instance[1])
                             ELSE clientsMade
           /\ resolutions' = IF v.suspended
                             THEN Append(resolutions,
                                         [request |-> r, url |-> url])
                             ELSE resolutions
           /\ verifications' =
                  [verifications EXCEPT ![r] =
                      [vpc |-> IF v.suspended THEN "fetching" ELSE "done",
                       url |-> url,
                       jwt |-> <<content>>,
                       client |-> IF v.suspended THEN v.instance ELSE <<>>,
                       fetched |-> <<>>,
                       result |-> v.result]]
    /\ UNCHANGED <<jwtSecret, supabaseUrl, now, pc, authorization,
                   requestUser, token, jwt, verifyCalls, fetchCalls,
                   clientsCreated, fetchError, result, thrown, admitted>>
    /\ UNCHANGED <<geoVars, readerVars, routeVars, filterVars, isoVars,
                   loaderVars>>

\* the getSigningKey of request r settles and its verification returns
KeyFetchSettles(r, outcome) ==
    /\ verifications[r].vpc = "fetching"
    /\ LET call == verifications[r]
           fetched == getSigningKey(call.client[1], call.jwt[1].kid, outcome)
           res == IF fetched.key = <<>> THEN Catch(fetched.error)
                  ELSE Conclude(call.jwt[1],
                                VerifyES256(call.jwt[1], fetched.key[1],
                                            now)[1].outcome)
       IN  verifications' =
               [verifications EXCEPT ![r] =
                   [call EXCEPT !.vpc = "done",
                                !.fetched = <<call.client[1].base>>,
                                !.result = <<res>>]]
    /\ UNCHANGED <<clientsMade, resolutions>>
    /\ UNCHANGED <<authVars, geoVars, readerVars, routeVars, filterVars,
                   isoVars, loaderVars>>

NextJwks ==
    \/ \E r \in 1..MaxRequests : \E content \in CallTokens :
         \E url \in CallUrls : VerifyCalled(r, content, url)
    \/ \E r \in 1..MaxRequests : \E outcome \in FetchOutcomes :
         KeyFetchSettles(r, outcome)

SpecJwks == InitJwks /\ [][NextJwks]_vars

\* C23: however the verifications of concurrent requests interleave, the
\* process creates at most one JWKS client; it is created by the first
\* call that reaches key resolution, and every call that reaches key
\* resolution holds that one instance.
C23_OneClient ==
    /\ Len(clientsMade) <= 1
    /\ Len(clientsMade) = (IF resolutions = <<>> THEN 0 ELSE 1)
    /\ clientsMade # <<>>
       => /\ clientsMade[1].base = resolutions[1].url
          /\ jwksClientInstance = <<clientsMade[1]>>
    /\ \A r \in 1..MaxRequests :
         verifications[r].client # <<>>
         => verifications[r].client = <<clientsMade[1]>>

C23_Witness ==
    /\ Len(resolutions) = 2
    /\ Len(clientsMade) = 1
    /\ verifications[1].vpc = "fetching"
    /\ verifications[2].vpc = "fetching"

\* C29: the client keeps the endpoint of the first call that reached key
\* resolution: every later call, also one made with another supabaseUrl,
\* has its key fetched from the first URL's key set, and the module-level
\* instance, once set, never changes.
C29_BoundToFirstUrl ==
    /\ \A r \in 1..MaxRequests :
         /\ verifications[r].client # <<>>
            => verifications[r].client[1].base = resolutions[1].url
         /\ verifications[r].fetched # <<>>
            => verifications[r].fetched[1] = resolutions[1].url
    /\ resolutions # <<>>
       => /\ jwksClientInstance # <<>>
          /\ jwksClientInstance[1].base = resolutions[1].url
          /\ jwksClientInstance[1].jwksUri
                 = <<resolutions[1].url, "/auth/v1/.well-known/jwks.json">>

C29_Witness ==
    /\ Len(resolutions) = 2
    /\ resolutions[1].url = IssuerUrl
    /\ resolutions[2].url = OtherUrl
    /\ verifications[resolutions[2].request].vpc = "done"
    /\ verifications[resolutions[2].request].fetched = <<IssuerUrl>>
    /\ verifications[resolutions[2].request].result[1].valid


C26_TwoAttempts ==
    (jwt # <<>> /\ jwt[1].alg = "HS256" /\ verifyCalls # <<>>)
    => /\ verifyCalls[1].key = RawKey(jwtSecret)
       /\ Len(verifyCalls) <= 2
       /\ Len(verifyCalls) = 2
          <=> verifyCalls[1].outcome = "JsonWebTokenError"
       /\ Len(verifyCalls) = 2
          => verifyCalls[2].key = Base64Key(jwtSecret)


\* ------------------------------------------------------------------------
\* safeISOString on its own
\* ------------------------------------------------------------------------

\* latest time a stored timestamp or a date string stands for
MaxMillis == 11

\* what a caller can pass: null, the empty string, a valid Date, an Invalid
\* Date, a string that parses and one that does not
DateInputs ==
    {Null, <<EmptyText>>, <<InvalidDate>>, <<GarbageText>>}
    \cup {<<ValidDate(ms)>> : ms \in 0..MaxMillis}
    \cup {<<DateText(ms)>> : ms \in 0..MaxMillis}

InitIso ==
    /\ AuthQuiet
    /\ GeoQuiet
    /\ ReaderQuiet
    /\ RouteQuiet
    /\ FilterQuiet
    /\ JwksQuiet
    /\ LoaderQuiet
    /\ isoInput \in DateInputs
    /\ isoResult = <<>>

\* the call of safeISOString
Normalize ==
    /\ isoResult = <<>>
    /\ isoResult' = <<safeISOString(isoInput, now)>>
    /\ UNCHANGED <<isoInput, authVars, geoVars, readerVars, routeVars,
                   filterVars, jwksVars, loaderVars>>

NextIso ==
    \/ Normalize
    \/ Tick

SpecIso == InitIso /\ [][NextIso]_vars

\* C27: safeISOString always returns an ISO string: that of the timestamp
\* for a valid Date (or a string that parses to one), and that of a time
\* of the clock up to the call for a missing, empty, unparseable or
\* invalid value; it never leaves by an exception.
C27_AlwaysISOString ==
    isoResult # <<>>
    => /\ DOMAIN isoResult[1] = {"iso"}
       /\ IF isoInput # Null /\ isoInput[1].valid
          THEN isoResult[1] = [iso |-> isoInput[1].ms]
          ELSE isoResult[1] \in {[iso |-> t] : t \in 1..now}

C27_Witness ==
    /\ isoInput = <<InvalidDate>>
    /\ now = MaxNow
    /\ isoResult = <<ISOString(MaxNow)>>


\* C28: once verifySupabaseJwt is past its last await it has returned a
\* result, and every result is well formed: valid with a user whose sub is
\* a non-empty string and no error, or invalid with a non-empty error and
\* no user.
C28_WellFormedResult ==
    /\ (pc \in {"verified", "done"} /\ token # <<>>) => result # <<>>
    /\ result # <<>>
       => IF result[1].valid
          THEN /\ result[1].user # <<>>
               /\ result[1].user[1].sub \notin {Undefined, ""}
               /\ result[1].error = <<>>
          ELSE /\ result[1].user = <<>>
               /\ result[1].error # <<>>
               /\ result[1].error[1] # ""

C28_Witness ==
    /\ pc = "verified"
    /\ jwt # <<>>
    /\ result # <<>>
    /\ jwt[1].alg = "ES256"
    /\ result[1].valid
    /\ result[1].user[1].sub = "user-1"
    /\ result[1].error = <<>>

\* ------------------------------------------------------------------------
\* The ingestion scripts
\* ------------------------------------------------------------------------

\* most records one file holds
MaxRecords == 2

\* a value read from a file: a string, a number, or undefined
JsString(text) == [t |-> "string", v |-> text]

JsNumber(n) == [t |-> "number", v |-> n]

JsUndefined == [t |-> "undefined", v |-> ""]

\* !value
IsFalsy(value) ==
    \/ value.t = "undefined"
    \/ value.t = "string" /\ value.v = ""
    \/ value.t = "number" /\ value.v = 0

\* the result that is no number
NaN == <<>>

\* the number a text starts with, for the texts of the sample files
Numeral(text) ==
    CASE text = "0" -> <<0>>
      [] text = "1" -> <<1>>
      [] text = "2" -> <<2>>
      [] text = "20" -> <<20>>
      [] text = "73" -> <<73>>
      [] text = "91" -> <<91>>
      [] text = "1999" -> <<1999>>
      [] text = "2024" -> <<2024>>
      [] OTHER -> NaN

\* parseFloat(String(value)), parseInt(String(value), 10)
ParseNumber(value) ==
    IF value.t = "number" THEN <<value.v>>
    ELSE IF value.t = "string" THEN Numeral(value.v)
    ELSE NaN

\* a validator's answer: null (<<>>) or <<number>>
InRange(num, min, max) ==
    IF num = NaN THEN Null
    ELSE IF num[1] < min \/ num[1] > max THEN Null
    ELSE num

validateScore(value) == InRange(ParseNumber(value), 0, 1)

validateLatitude(value) == InRange(ParseNumber(value), -90, 90)

validateLongitude(value) == InRange(ParseNumber(value), -180, 180)

validateYear(value) == InRange(ParseNumber(value), 2000, 2100)

\* String.prototype.toLowerCase, for the labels of the sample files
toLowerCase(text) ==
    CASE text = "Urban" -> "urban"
      [] text = "HIGH" -> "high"
      [] OTHER -> text

VALID_CLASSIFICATIONS == {"rural", "peri-urban", "urban"}

VALID_RISK_LEVELS == {"low", "medium", "high"}

\* what one pass of a loop body comes to before its insert: the record is
\* skipped, an exception reaches the catch of the body, or the insert is
\* issued
\* loadMigrationFlows, the try of the loop
MigrationBody(row) ==
    IF IsFalsy(row.origin_region) \/ IsFalsy(row.destination_region)
    THEN "skipped"
    ELSE IF validateScore(row.migration_score) = Null THEN "skipped"
    ELSE IF validateYear(row.year) = Null THEN "skipped"
    ELSE IF \/ validateLatitude(row.origin_lat) = Null
            \/ validateLongitude(row.origin_lng) = Null
         THEN "skipped"
    ELSE IF \/ validateLatitude(row.destination_lat) = Null
            \/ validateLongitude(row.destination_lng) = Null
         THEN "skipped"
    ELSE "insert"

\* feature.properties || {}
NoProperties ==
    [region_name |-> JsUndefined, score |-> JsUndefined,
     label |-> JsUndefined]

PropertiesOf(feature) ==
    IF feature.properties = Null THEN NoProperties
    ELSE feature.properties[1]

\* the try of the loop of loadGrowthZones and of loadDigitalRisk: score is
\* growth_score or risk_score, label is classification or risk_level; a
\* feature that is null, a label that is a number and a region_name that
\* is a number raise a TypeError
FeatureBody(feature, labels) ==
    IF feature = Null THEN "errors"
    ELSE LET props == PropertiesOf(feature[1])
         IN  IF IsFalsy(props.region_name) THEN "skipped"
             ELSE IF validateScore(props.score) = Null THEN "skipped"
             ELSE IF props.label.t = "number" THEN "errors"
             ELSE IF \/ props.label.t = "undefined"
                     \/ props.label.v = ""
                     \/ toLowerCase(props.label.v) \notin labels
                  THEN "skipped"
             ELSE IF feature[1].geometry # <<"Polygon">> THEN "skipped"
             ELSE IF props.region_name.t # "string" THEN "errors"
             ELSE "insert"

Loaders == {"load_migration", "load_growth", "load_digital_risk"}

IngestBody(script, record) ==
    IF script = "load_migration" THEN MigrationBody(record)
    ELSE IF script = "load_growth"
         THEN FeatureBody(record, VALID_CLASSIFICATIONS)
    ELSE FeatureBody(record, VALID_RISK_LEVELS)

\* rows of a sample CSV file
CsvRow ==
    [origin_region |-> JsString("Pune"),
     destination_region |-> JsString("Delhi"),
     migration_score |-> JsString("1"), year |-> JsString("2024"),
     origin_lat |-> JsString("20"), origin_lng |-> JsString("73"),
     destination_lat |-> JsString("20"),
     destination_lng |-> JsString("73")]

MigrationRows ==
    {CsvRow,
     [CsvRow EXCEPT !.destination_region = JsString("")],
     [CsvRow EXCEPT !.migration_score = JsString("2")],
     [CsvRow EXCEPT !.year = JsString("1999")],
     [CsvRow EXCEPT !.origin_lat = JsString("91")],
     [CsvRow EXCEPT !.destination_lng = JsUndefined]}

\* features of a sample GeoJSON file
InputFeature(name, score, label, geometry) ==
    <<[properties |-> <<[region_name |-> name, score |-> score,
                         label |-> label]>>,
       geometry |-> geometry]>>

FeaturesOf(label) ==
    {Null,
     <<[properties |-> Null, geometry |-> <<"Polygon">>]>>,
     InputFeature(JsString("Pune"), JsNumber(1), JsString(label),
                  <<"Polygon">>),
     InputFeature(JsString("Pune"), JsNumber(2), JsString(label),
                  <<"Polygon">>),
     InputFeature(JsString("Pune"), JsString("1"), JsNumber(1), <<"Polygon">>),
     InputFeature(JsString("Pune"), JsNumber(1), JsString("other"),
             <<"Polygon">>),
     InputFeature(JsString("Pune"), JsNumber(1), JsString(label), <<"Point">>),
     InputFeature(JsString("Pune"), JsNumber(1), JsString(label), Null),
     InputFeature(JsNumber(1), JsNumber(1), JsString(label), <<"Polygon">>)}

RecordsOf(script) ==
    IF script = "load_migration" THEN MigrationRows
    ELSE IF script = "load_growth" THEN FeaturesOf("Urban")
    ELSE FeaturesOf("HIGH")

FilesOf(script) ==
    UNION {[1..n -> RecordsOf(script)] : n \in 0..MaxRecords}

\* a script has started: createStats() has run, the file is not read yet
InitLoader ==
    /\ AuthQuiet
    /\ GeoQuiet
    /\ ReaderQuiet
    /\ RouteQuiet
    /\ FilterQuiet
    /\ JwksQuiet
    /\ IsoQuiet
    /\ loader \in Loaders
    /\ parsed \in FilesOf(loader)
    /\ stats = createStats
    /\ loopIndex = 0
    /\ lpc = "start"
    /\ stored = <<>>

nonLoaderVars ==
    <<authVars, geoVars, readerVars, routeVars, filterVars, jwksVars,
      isoVars>>

\* the file is parsed, stats.total is set, TRUNCATE is issued
LoaderParses ==
    /\ lpc = "start"
    /\ stats' = [stats EXCEPT !.total = Len(parsed)]
    /\ lpc' = "truncating"
    /\ UNCHANGED <<loader, parsed, loopIndex, stored, nonLoaderVars>>

\* TRUNCATE settles; its failure reaches the outer catch: process.exit(1)
TruncateSettles(ok) ==
    /\ lpc = "truncating"
    /\ lpc' = IF ok THEN "looping" ELSE "exited"
    /\ stored' = <<>>
    /\ UNCHANGED <<loader, parsed, stats, loopIndex, nonLoaderVars>>

\* one pass of the loop, up to its continue, its catch or its insert
LoaderIterates ==
    /\ lpc = "looping"
    /\ loopIndex < Len(parsed)
    /\ LET outcome == IngestBody(loader, parsed[loopIndex + 1])
       IN  IF outcome = "skipped"
           THEN /\ stats' = [stats EXCEPT !.skipped = @ + 1]
                /\ loopIndex' = loopIndex + 1
                /\ lpc' = "looping"
           ELSE IF outcome = "errors"
           THEN /\ stats' = [stats EXCEPT !.errors = @ + 1]
                /\ loopIndex' = loopIndex + 1
                /\ lpc' = "looping"
           ELSE /\ lpc' = "inserting"
                /\ UNCHANGED <<stats, loopIndex>>
    /\ UNCHANGED <<loader, parsed, stored, nonLoaderVars>>

\* the insert fails and nothing catches it inside the loop
InsertSettles_Fatal(ok) ==
    /\ lpc = "inserting"
    /\ IF ok
       THEN /\ stored' = Append(stored, loopIndex + 1)
            /\ stats' = [stats EXCEPT !.inserted = @ + 1]
            /\ loopIndex' = loopIndex + 1
            /\ lpc' = "looping"
       ELSE /\ lpc' = "exited"
            /\ UNCHANGED <<stored, stats, loopIndex>>
    /\ UNCHANGED <<loader, parsed, nonLoaderVars>>

\* the insert settles: stats.inserted++, or the catch of the body and
\* stats.errors++; either way the loop goes on to i + 1
InsertSettles(ok) ==
    /\ lpc = "inserting"
    /\ IF ok
       THEN /\ stored' = Append(stored, loopIndex + 1)
            /\ stats' = [stats EXCEPT !.inserted = @ + 1]
       ELSE /\ stats' = [stats EXCEPT !.errors = @ + 1]
            /\ UNCHANGED stored
    /\ loopIndex' = loopIndex + 1
    /\ lpc' = "looping"
    /\ UNCHANGED <<loader, parsed, nonLoaderVars>>

\* the loop is over: printStats
LoaderPrints ==
    /\ lpc = "looping"
    /\ loopIndex = Len(parsed)
    /\ lpc' = "printed"
    /\ UNCHANGED <<loader, parsed, stats, loopIndex, stored, nonLoaderVars>>

TruncateDone == \E ok \in BOOLEAN : TruncateSettles(ok)

InsertDone == \E ok \in BOOLEAN : InsertSettles(ok)

NextLoader ==
    \/ LoaderParses
    \/ TruncateDone
    \/ LoaderIterates
    \/ InsertDone
    \/ LoaderPrints

SpecLoader == InitLoader /\ [][NextLoader]_vars

\* C30: in each ingestion script, once the loop has gone through a prefix
\* of the parsed records, inserted + skipped + errors is the length of that
\* prefix, so when the statistics are printed total = inserted + skipped +
\* errors; each record raises exactly one of the three counters by one and
\* leaves the other two alone; a failed insert is counted and the loop goes
\* on with the next record, and the script leaves the loop early for no
\* record.
C30_CountersAddUp ==
    /\ [](/\ stats.inserted + stats.skipped + stats.errors = loopIndex
          /\ lpc = "printed"
             => /\ loopIndex = Len(parsed)
                /\ stats.total
                     = stats.inserted + stats.skipped + stats.errors
          /\ lpc = "exited" => loopIndex = 0)
    /\ [][/\ loopIndex' \in {loopIndex, loopIndex + 1}
          /\ loopIndex' = loopIndex + 1
             => LET counters == {"inserted", "skipped", "errors"}
                    raised == {c \in counters : stats'[c] = stats[c] + 1}
                IN  /\ Cardinality(raised) = 1
                    /\ \A c \in counters \ raised : stats'[c] = stats[c]
          /\ loopIndex' = loopIndex => stats'.inserted = stats.inserted
                                       /\ stats'.skipped = stats.skipped
                                       /\ stats'.errors = stats.errors
          /\ stats'.errors = stats.errors + 1 => lpc' = "looping"]_vars

\* the insert of the first record failed, the second record was inserted,
\* and the statistics were printed
C30_Witness ==
    /\ lpc = "printed"
    /\ Len(parsed) = 2
    /\ IngestBody(loader, parsed[1]) = "insert"
    /\ stored = <<2>>
    /\ stats = [total |-> 2, inserted |-> 1, skipped |-> 0, errors |-> 1]

====
